---------------------------- MODULE Spec2Model ----------------------------
(***************************************************************************)
(* State-machine model of the manim scene scripts                          *)
(*   src/manim/ast_generation.py    (ASTGeneration)                        *)
(*   src/manim/cfg_static_images.py (IdentifyBasicBlocks, BuildBasicBlocks,*)
(*                                   FinalCFG, BlockMerging, AllSteps)     *)
(*                                                                         *)
(* A scene is a straight-line script.  Its state is the set of mobjects    *)
(* the Scene currently holds (screen), the attributes the script stores on *)
(* self, the locals of the running method and the position in the script   *)
(* (pc).  Every construction statement, loop iteration, self.play and      *)
(* self.wait is one step.                                                   *)
(*                                                                         *)
(* The animation engine is the black box the scripts are written against:  *)
(*   play(Create(m)) / play(Write(m)) / Scene.add(m)  put m on screen,     *)
(*   play(FadeOut(m))                                  takes m off screen, *)
(*   play(Transform(self.title, t))   keeps the title mobject, new text,   *)
(*   play(m.animate....)              puts m on screen if it was not.      *)
(* Coordinates, fonts, stroke widths and run times are layout only; of the *)
(* geometry the model keeps the anchor edges of arrows, the direction of a *)
(* label shift and the boxes of the two texts of each token group (where    *)
(* they are created, then where the scale and move of all_tokens put them).*)
(*                                                                         *)
(* Python sequences are 0-based; the model keeps the source's indices and  *)
(* reads them through PyIndex.                                             *)
(*                                                                         *)
(* A str the script computes on (strip, split, len, comparison) or whose   *)
(* length enters the layout is the sequence of its code points; a str that *)
(* is only handed to Text is kept as a label, in English where the source  *)
(* is Chinese.                                                             *)
(***************************************************************************)
EXTENDS Integers, Sequences, FiniteSets, TLC

VARIABLES
    scene,          \* the Scene class being rendered
    pc,             \* position in the scene script
    screen,         \* Scene.mobjects: the mobjects on screen
    title,          \* text shown by the title mobject (None: no title yet)
    font,           \* the glyph metrics of the fonts the renderer resolved
    stages,         \* history: the stage methods entered so far, in order
    \* ---- cfg_static_images.py
    blocks,         \* local VGroup blocks
    arrows,         \* local VGroup arrows
    self_blocks,    \* self.blocks
    self_arrows,    \* self.arrows
    merged_block,   \* local merged_block of perform_merging
    new_arrows,     \* locals <<new_arrow1, new_arrow2>> of perform_merging
    self_overlay,   \* self.rule_text, self.highlight_boxes, self.annotations
    \* ---- ast_generation.py
    code_lines,     \* local code_lines of show_source_code
    code_group,     \* local code_group (the Text lines built so far)
    self_code,      \* self.code_box, self.code_group
    tokens,         \* local tokens of show_tokenization
    iters,          \* number of iterations done by the running loop
    current_line,   \* local current_line
    token_groups,   \* local token_groups
    x_pos,          \* local x_pos
    y_pos,          \* local y_pos
    tokens_in_line, \* local tokens_in_line
    self_token_groups, \* self.token_groups
    self_rules,     \* self.rules (<<>>: not set)
    env,            \* locals of show_ast_building: variable name -> mobject
    self_ast_nodes, \* self.ast_nodes
    self_ast_arrows, \* self.ast_arrows
    \* ---- box builder applied to a given statement list
    statements,     \* the argument
    block           \* the returned block (Unbound before the call)

cfgVars == <<blocks, arrows, self_blocks, self_arrows, merged_block, new_arrows,
             self_overlay>>
boxVars == <<statements, block>>
srcVars == <<code_lines, code_group, self_code>>
tokVars == <<tokens, current_line, token_groups, x_pos, y_pos, tokens_in_line,
             self_token_groups>>
treeVars == <<self_rules, env, self_ast_nodes, self_ast_arrows>>
astVars == <<srcVars, tokVars, treeVars, iters>>

\* Python's None
None == "<None>"

\* A local variable that is not bound to a mobject yet
Unbound == [kind |-> "unbound"]

\* seq[i] of a Python list: negative indices count from the end.
PyInRange(seq, i) == -Len(seq) <= i /\ i < Len(seq)
PyIndex(seq, i) == IF i >= 0 THEN seq[i + 1] ELSE seq[Len(seq) + i + 1]

\* `if label_text:` on an Optional[str]
TruthyStr(s) == s # None /\ s # ""

\* The members of a VGroup / list as a set of mobjects
Members(seq) == {seq[k] : k \in 1..Len(seq)}

----------------------------------------------------------------------------
(* create_block_box: the three scene classes carry one copy each.          *)

\* The block VGroup(title, box, content): its title text, its colour and the
\* lines of its content (stmt_group).
BlockOf(block_id, lines, color) ==
    [kind |-> "block", id |-> block_id, color |-> color, content |-> lines]

BuildBasicBlocks_create_block_box(block_id, stmts, color) ==
    IF Len(stmts) > 0
    THEN BlockOf(block_id, [k \in 1..Len(stmts) |-> stmts[k]], color)
    ELSE BlockOf(block_id, <<"(empty)">>, color)

FinalCFG_create_block_box(block_id, stmts, color) ==
    IF Len(stmts) > 0
    THEN BlockOf(block_id, [k \in 1..Len(stmts) |-> stmts[k]], color)
    ELSE BlockOf(block_id, <<"(empty)">>, color)

\* Mutant: no placeholder for an empty statement list
BlockMerging_create_block_box_no_placeholder(block_id, stmts, color) ==
    BlockOf(block_id, [k \in 1..Len(stmts) |-> stmts[k]], color)

BlockMerging_create_block_box(block_id, stmts, color) ==
    IF Len(stmts) > 0
    THEN BlockOf(block_id, [k \in 1..Len(stmts) |-> stmts[k]], color)
    ELSE BlockOf(block_id, <<"(empty)">>, color)

----------------------------------------------------------------------------
(* Arrows                                                                   *)

\* Arrow(start, end) between an edge of from_block and an edge of to_block,
\* alone or grouped with its label (label = None: the bare Arrow).
ArrowOf(from_block, to_block, startEdge, endEdge, label, shift) ==
    [kind |-> "arrow", src |-> from_block.id, dst |-> to_block.id,
     start |-> startEdge, end |-> endEdge, label |-> label, shift |-> shift]

\* Mutant: the label is built but the bare arrow is returned
BlockMerging_create_arrow_unlabelled(from_block, to_block, label_text, from_idx, to_idx) ==
    ArrowOf(from_block, to_block,
            IF from_idx = 4 THEN (IF to_idx = 5 THEN "left" ELSE "right") ELSE "bottom",
            "top", None, None)

\* BlockMerging.create_arrow
BlockMerging_create_arrow(from_block, to_block, label_text, from_idx, to_idx) ==
    LET start == IF from_idx = 0 THEN "bottom"
                 ELSE IF from_idx = 1 \/ from_idx = -1 THEN "bottom"
                 ELSE IF from_idx = 4
                      THEN (IF to_idx = 5 THEN "left" ELSE "right")
                 ELSE IF from_idx \in {5, 6} THEN "bottom"
                 ELSE "bottom"
        end   == IF to_idx = 4 THEN "top"
                 ELSE IF to_idx \in {5, 6} THEN "top"
                 ELSE IF to_idx = 7 THEN "top"
                 ELSE IF to_idx = 8 THEN "top"
                 ELSE "top"
    IN  IF TruthyStr(label_text)
        THEN ArrowOf(from_block, to_block, start, end, label_text,
                     IF to_idx = 5 THEN "LEFT" ELSE "RIGHT")
        ELSE ArrowOf(from_block, to_block, start, end, None, None)

\* Mutant: every arrow leaves the bottom edge of its source box
FinalCFG_arrow_all_bottom(from_block, to_block, label_text, from_idx, to_idx) ==
    IF TruthyStr(label_text)
    THEN ArrowOf(from_block, to_block, "bottom", "top", label_text,
                 IF to_idx = 2 THEN "LEFT" ELSE "RIGHT")
    ELSE ArrowOf(from_block, to_block, "bottom", "top", None, None)

\* The body of the connection loop of FinalCFG.construct
FinalCFG_arrow(from_block, to_block, label_text, from_idx, to_idx) ==
    LET start == IF from_idx = 0 THEN "bottom"
                 ELSE IF from_idx = 1
                      THEN (IF to_idx = 2 THEN "left" ELSE "right")
                 ELSE IF from_idx \in {2, 3} THEN "bottom"
                 ELSE "bottom"
        end   == IF to_idx = 1 THEN "top"
                 ELSE IF to_idx \in {2, 3} THEN "top"
                 ELSE IF to_idx = 4 THEN "top"
                 ELSE "top"
    IN  IF TruthyStr(label_text)
        THEN ArrowOf(from_block, to_block, start, end, label_text,
                     IF to_idx = 2 THEN "LEFT" ELSE "RIGHT")
        ELSE ArrowOf(from_block, to_block, start, end, None, None)

----------------------------------------------------------------------------
(* Literal scene data of cfg_static_images.py                               *)

BlockDef(block_id, stmts, color) ==
    [id |-> block_id, statements |-> stmts, color |-> color]

\* BuildBasicBlocks.construct: block0 .. block5
BB_block_defs ==
    << BlockDef("entry_block", <<"int grade = 0;", "int score = 70;">>, "GREEN"),
       BlockDef("block_1", <<"if (score >= 90)">>, "ORANGE"),
       BlockDef("block_2", <<"grade = 1;">>, "YELLOW"),
       BlockDef("block_3", <<"grade = 2;">>, "YELLOW"),
       BlockDef("block_4", <<"return grade;">>, "PURPLE"),
       BlockDef("exit_block", <<>>, "RED") >>

\* FinalCFG.construct: block0 .. block5
FC_block_defs ==
    << BlockDef("entry_block", <<"int grade = 0;", "int score = 70;">>, "GREEN"),
       BlockDef("block_1", <<"if (score >= 90)">>, "ORANGE"),
       BlockDef("block_2", <<"grade = 1;">>, "YELLOW"),
       BlockDef("block_3", <<"grade = 2;">>, "YELLOW"),
       BlockDef("block_4", <<"return grade;">>, "PURPLE"),
       BlockDef("exit_block", <<>>, "RED") >>

\* FinalCFG.construct: connections
FC_connections ==
    << <<0, 1, None>>,
       <<1, 2, "true">>,
       <<1, 3, "false">>,
       <<2, 4, None>>,
       <<3, 4, None>>,
       <<4, 5, None>> >>

\* BlockMerging.show_initial_blocks: entry, block1..3, condition, then_block,
\* else_block, merge, exit_block
BM_block_defs ==
    << BlockDef("entry_block", <<"int x = 0;", "int y = 1;">>, "GREEN"),
       BlockDef("block_1", <<"x = x + 1;">>, "YELLOW"),
       BlockDef("block_2", <<"y = y * 2;">>, "YELLOW"),
       BlockDef("block_3", <<"int z = x + y;">>, "YELLOW"),
       BlockDef("block_4", <<"if (z > 10)">>, "ORANGE"),
       BlockDef("block_5", <<"x = 100;">>, "YELLOW"),
       BlockDef("block_6", <<"x = 200;">>, "YELLOW"),
       BlockDef("block_7", <<"return x;">>, "PURPLE"),
       BlockDef("exit_block", <<>>, "RED") >>

\* Mutant: the last connection names a block past the end of the list
BM_connections_out_of_range ==
    << <<0, 1, None>>,
       <<1, 2, None>>,
       <<2, 3, None>>,
       <<3, 4, None>>,
       <<4, 5, "true">>,
       <<4, 6, "false">>,
       <<5, 7, None>>,
       <<6, 7, None>>,
       <<7, 9, None>> >>

\* BlockMerging.show_initial_blocks: connections
BM_connections ==
    << <<0, 1, None>>,
       <<1, 2, None>>,
       <<2, 3, None>>,
       <<3, 4, None>>,
       <<4, 5, "true">>,
       <<4, 6, "false">>,
       <<5, 7, None>>,
       <<6, 7, None>>,
       <<7, 8, None>> >>

\* Mutant: the highlighted indices one too high (block_2, block_3, condition)
BM_mergeable_idx_shifted == <<2, 3, 4>>

\* BlockMerging.identify_mergeable_blocks / perform_merging: the indices of
\* the highlighted and removed blocks
BM_mergeable_idx == <<1, 2, 3>>

\* Mutant: the statements of block_2 and block_1 swapped
BM_merged_statements_swapped == <<"y = y * 2;", "x = x + 1;", "int z = x + y;">>

\* perform_merging: the statement list given to merged_block
BM_merged_statements == <<"x = x + 1;", "y = y * 2;", "int z = x + y;">>


\* Mutant: block_3 left out of blocks_to_remove
BM_blocks_to_remove_idx_short == <<1, 2>>

\* perform_merging: blocks_to_remove, arrows_to_remove (indices into
\* self.blocks, self.arrows)
BM_blocks_to_remove_idx == <<1, 2, 3>>

\* Mutant: block_3 -> condition (arrows[3]) left out of arrows_to_remove
BM_arrows_to_remove_idx_short == <<0, 1, 2>>

BM_arrows_to_remove_idx == <<0, 1, 2, 3>>

\* Mutant: the kept blocks taken one index too early, keeping the faded
\* block_3 and losing exit_block
BM_kept_block_idx_stale == <<3, 4, 5, 6, 7>>

\* perform_merging: the members of self.blocks kept around merged_block
BM_kept_block_idx == <<4, 5, 6, 7, 8>>

\* Mutant: the kept arrows taken one index too early, as if the list had
\* already lost arrows[3]
BM_kept_arrow_idx_shifted == <<3, 4, 5, 6, 7>>

\* perform_merging: the members of self.arrows kept after the new arrows
BM_kept_arrow_idx == <<4, 5, 6, 7, 8>>

\* Overlay mobjects of BlockMerging
BM_rule_text == [kind |-> "rule_text"]
BM_highlight(b) == [kind |-> "highlight", around |-> b.id]
BM_annotation(b) == [kind |-> "annotation", below |-> b.id]
BM_note == [kind |-> "note"]
TitleMob == [kind |-> "title"]


----------------------------------------------------------------------------
(* construct: the stage methods a scene calls, in order, each followed by  *)
(* self.wait.                                                               *)

BM_construct ==
    <<"show_initial_blocks", "identify_mergeable_blocks",
      "perform_merging", "show_final_merged_cfg">>

\* construct calls its next stage method
CallStage(cls, script) ==
    /\ scene = cls
    /\ pc = "construct"
    /\ Len(stages) < Len(script)
    /\ pc' = script[Len(stages) + 1]
    /\ stages' = Append(stages, script[Len(stages) + 1])

\* self.wait(..) after a stage method returned; construct returns after the
\* last one
Wait(cls, script) ==
    /\ scene = cls
    /\ pc = "wait"
    /\ pc' = IF Len(stages) < Len(script) THEN "construct" ELSE "done"
    /\ UNCHANGED stages

----------------------------------------------------------------------------
(* IdentifyBasicBlocks.construct and AllSteps.construct                     *)

\* a VGroup of Text lines placed as one mobject
TextBlock(lines) == [kind |-> "textblock", lines |-> lines]

\* IdentifyBasicBlocks.construct: block_boundaries.  The literals are Chinese
\* and are given here in English, line for line.
IBB_block_boundaries ==
    TextBlock(<< "rules for basic block boundaries:",
                 "* function entry -> a new block begins",
                 "* control-flow statement (if/while/for/return) -> the block ends",
                 "* control-flow target -> a new block begins",
                 "* function exit -> the block ends" >>)

\* IdentifyBasicBlocks.construct: marked_code (the markers in English)
IBB_marked_code ==
    TextBlock(<< "[block 0 begins]",
                 "int grade = 0;",
                 "int score = 70;",
                 "[block 1 begins]if (score >= 90) {",
                 "[block 2 begins]    grade = 1;",
                 "[block 1 ends]} else {",
                 "[block 3 begins]    grade = 2;",
                 "[block 1 ends]}",
                 "[block 4 begins]return grade;",
                 "[block 4 ends]" >>)

\* self.add(title, block_boundaries, marked_code); construct returns
IBB_Add ==
    /\ scene = "IdentifyBasicBlocks"
    /\ pc = "construct"
    /\ screen' = screen \cup {TitleMob, IBB_block_boundaries, IBB_marked_code}
    /\ title' = "step 3: identify basic block boundaries"
    /\ pc' = "done"
    /\ UNCHANGED <<scene, font, stages, cfgVars, boxVars, astVars>>

\* AllSteps.construct: pass
AllSteps_Pass ==
    /\ scene = "AllSteps"
    /\ pc = "construct"
    /\ pc' = "done"
    /\ UNCHANGED <<scene, font, screen, title, stages, cfgVars, boxVars, astVars>>

----------------------------------------------------------------------------
(* BuildBasicBlocks.construct                                               *)

\* block<k> = self.create_block_box(..); blocks.add(block<k>)
BB_AddBlock ==
    /\ scene = "BuildBasicBlocks"
    /\ pc = "construct"
    /\ Len(blocks) < Len(BB_block_defs)
    /\ LET d == BB_block_defs[Len(blocks) + 1]
       IN  blocks' = Append(blocks,
               BuildBasicBlocks_create_block_box(d.id, d.statements, d.color))
    /\ UNCHANGED <<scene, font, pc, screen, title, stages, arrows, self_blocks,
                   self_arrows, merged_block, new_arrows, self_overlay,
                   boxVars, astVars>>

\* self.add(title, *blocks)
BB_Add ==
    /\ scene = "BuildBasicBlocks"
    /\ pc = "construct"
    /\ Len(blocks) = Len(BB_block_defs)
    /\ screen' = screen \cup {TitleMob} \cup Members(blocks)
    /\ title' = "step 4: build basic blocks"
    /\ pc' = "done"
    /\ UNCHANGED <<scene, font, stages, cfgVars, boxVars, astVars>>

----------------------------------------------------------------------------
(* FinalCFG.construct                                                       *)

FC_AddBlock ==
    /\ scene = "FinalCFG"
    /\ pc = "construct"
    /\ Len(blocks) < Len(FC_block_defs)
    /\ LET d == FC_block_defs[Len(blocks) + 1]
       IN  blocks' = Append(blocks,
               FinalCFG_create_block_box(d.id, d.statements, d.color))
    /\ IF Len(blocks') = Len(FC_block_defs) THEN pc' = "connect" ELSE pc' = pc
    /\ UNCHANGED <<scene, font, screen, title, stages, arrows, self_blocks,
                   self_arrows, merged_block, new_arrows, self_overlay,
                   boxVars, astVars>>

\* one iteration of `for from_idx, to_idx, label_text in connections`;
\* blocks[from_idx] raises IndexError outside the list, which ends the render
FC_Connect ==
    /\ scene = "FinalCFG"
    /\ pc = "connect"
    /\ Len(arrows) < Len(FC_connections)
    /\ LET c == FC_connections[Len(arrows) + 1]
       IN  /\ PyInRange(blocks, c[1])
           /\ PyInRange(blocks, c[2])
           /\ arrows' = Append(arrows,
                  FinalCFG_arrow(PyIndex(blocks, c[1]), PyIndex(blocks, c[2]),
                                 c[3], c[1], c[2]))
    /\ UNCHANGED <<scene, font, pc, screen, title, stages, blocks, self_blocks,
                   self_arrows, merged_block, new_arrows, self_overlay,
                   boxVars, astVars>>

\* self.add(*blocks, *arrows)
FC_Add ==
    /\ scene = "FinalCFG"
    /\ pc = "connect"
    /\ Len(arrows) = Len(FC_connections)
    /\ screen' = screen \cup Members(blocks) \cup Members(arrows)
    /\ pc' = "done"
    /\ UNCHANGED <<scene, font, title, stages, cfgVars, boxVars, astVars>>

----------------------------------------------------------------------------
(* BlockMerging.show_initial_blocks                                         *)

BM_CallStage ==
    /\ CallStage("BlockMerging", BM_construct)
    /\ UNCHANGED <<scene, font, screen, title, cfgVars, boxVars, astVars>>

BM_Wait ==
    /\ Wait("BlockMerging", BM_construct)
    /\ UNCHANGED <<scene, font, screen, title, cfgVars, boxVars, astVars>>

\* entry = self.create_block_box(..); blocks.add(entry); ... exit_block
SIB_AddBlock ==
    /\ scene = "BlockMerging"
    /\ pc = "show_initial_blocks"
    /\ Len(blocks) < Len(BM_block_defs)
    /\ LET d == BM_block_defs[Len(blocks) + 1]
       IN  blocks' = Append(blocks,
               BlockMerging_create_block_box(d.id, d.statements, d.color))
    /\ IF Len(blocks') = Len(BM_block_defs)
       THEN pc' = "show_initial_blocks:connect" ELSE pc' = pc
    /\ UNCHANGED <<scene, font, screen, title, stages, arrows, self_blocks,
                   self_arrows, merged_block, new_arrows, self_overlay,
                   boxVars, astVars>>

\* one iteration of `for from_idx, to_idx, label in connections`
SIB_Connect ==
    /\ scene = "BlockMerging"
    /\ pc = "show_initial_blocks:connect"
    /\ Len(arrows) < Len(BM_connections)
    /\ LET c == BM_connections[Len(arrows) + 1]
       IN  /\ PyInRange(blocks, c[1])
           /\ PyInRange(blocks, c[2])
           /\ arrows' = Append(arrows,
                  BlockMerging_create_arrow(PyIndex(blocks, c[1]),
                                            PyIndex(blocks, c[2]),
                                            c[3], c[1], c[2]))
    /\ IF Len(arrows') = Len(BM_connections)
       THEN pc' = "show_initial_blocks:play_title" ELSE pc' = pc
    /\ UNCHANGED <<scene, font, screen, title, stages, blocks, self_blocks,
                   self_arrows, merged_block, new_arrows, self_overlay,
                   boxVars, astVars>>

\* self.play(Write(title))
SIB_PlayTitle ==
    /\ scene = "BlockMerging"
    /\ pc = "show_initial_blocks:play_title"
    /\ screen' = screen \cup {TitleMob}
    /\ title' = "step 1: initial basic blocks"
    /\ pc' = "show_initial_blocks:play_blocks"
    /\ UNCHANGED <<scene, font, stages, cfgVars, boxVars, astVars>>

\* self.play(*[Create(block) for block in blocks], run_time=2)
SIB_PlayBlocks ==
    /\ scene = "BlockMerging"
    /\ pc = "show_initial_blocks:play_blocks"
    /\ screen' = screen \cup Members(blocks)
    /\ pc' = "show_initial_blocks:play_arrows"
    /\ UNCHANGED <<scene, font, title, stages, cfgVars, boxVars, astVars>>

\* self.play(*[Create(arrow) for arrow in arrows], run_time=2)
SIB_PlayArrows ==
    /\ scene = "BlockMerging"
    /\ pc = "show_initial_blocks:play_arrows"
    /\ screen' = screen \cup Members(arrows)
    /\ pc' = "show_initial_blocks:assign"
    /\ UNCHANGED <<scene, font, title, stages, cfgVars, boxVars, astVars>>

\* self.title = title; self.blocks = blocks; self.arrows = arrows; return
SIB_Assign ==
    /\ scene = "BlockMerging"
    /\ pc = "show_initial_blocks:assign"
    /\ self_blocks' = blocks
    /\ self_arrows' = arrows
    /\ pc' = "wait"
    /\ UNCHANGED <<scene, font, screen, title, stages, blocks, arrows, merged_block,
                   new_arrows, self_overlay, boxVars, astVars>>


----------------------------------------------------------------------------
(* BlockMerging.identify_mergeable_blocks                                   *)

\* mergeable_blocks = [self.blocks[1], self.blocks[2], self.blocks[3]]
BM_mergeable_blocks(bs) ==
    [k \in 1..Len(BM_mergeable_idx) |-> PyIndex(bs, BM_mergeable_idx[k])]

\* highlight_boxes: one SurroundingRectangle per mergeable block
BM_highlight_boxes(bs) ==
    [k \in 1..Len(BM_mergeable_idx) |-> BM_highlight(BM_mergeable_blocks(bs)[k])]

\* annotations: one Text next to each mergeable block
BM_annotations(bs) ==
    [k \in 1..Len(BM_mergeable_idx) |-> BM_annotation(BM_mergeable_blocks(bs)[k])]

\* self.play(Transform(self.title, new_title))
IMB_PlayTitle ==
    /\ scene = "BlockMerging"
    /\ pc = "identify_mergeable_blocks"
    /\ \A k \in 1..Len(BM_mergeable_idx) : PyInRange(self_blocks, BM_mergeable_idx[k])
    /\ screen' = screen \cup {TitleMob}
    /\ title' = "step 2: identify mergeable blocks"
    /\ pc' = "identify_mergeable_blocks:play_rule"
    /\ UNCHANGED <<scene, font, stages, cfgVars, boxVars, astVars>>

\* self.play(Write(rule_text))
IMB_PlayRule ==
    /\ scene = "BlockMerging"
    /\ pc = "identify_mergeable_blocks:play_rule"
    /\ screen' = screen \cup {BM_rule_text}
    /\ pc' = "identify_mergeable_blocks:play_highlights"
    /\ UNCHANGED <<scene, font, title, stages, cfgVars, boxVars, astVars>>

\* self.play(*[Create(highlight) for highlight in highlight_boxes])
IMB_PlayHighlights ==
    /\ scene = "BlockMerging"
    /\ pc = "identify_mergeable_blocks:play_highlights"
    /\ screen' = screen \cup Members(BM_highlight_boxes(self_blocks))
    /\ pc' = "identify_mergeable_blocks:play_annotations"
    /\ UNCHANGED <<scene, font, title, stages, cfgVars, boxVars, astVars>>

\* self.play(Write(annotations))
IMB_PlayAnnotations ==
    /\ scene = "BlockMerging"
    /\ pc = "identify_mergeable_blocks:play_annotations"
    /\ screen' = screen \cup Members(BM_annotations(self_blocks))
    /\ pc' = "identify_mergeable_blocks:assign"
    /\ UNCHANGED <<scene, font, title, stages, cfgVars, boxVars, astVars>>

\* self.rule_text = ..; self.highlight_boxes = ..; self.annotations = ..
IMB_Assign ==
    /\ scene = "BlockMerging"
    /\ pc = "identify_mergeable_blocks:assign"
    /\ self_overlay' = [rule_text |-> <<BM_rule_text>>,
                        highlight_boxes |-> BM_highlight_boxes(self_blocks),
                        annotations |-> BM_annotations(self_blocks)]
    /\ pc' = "wait"
    /\ UNCHANGED <<scene, font, screen, title, stages, blocks, arrows, self_blocks,
                   self_arrows, merged_block, new_arrows, boxVars, astVars>>

----------------------------------------------------------------------------
(* BlockMerging.perform_merging                                             *)

\* self.play(Transform(self.title, new_title))
PM_PlayTitle ==
    /\ scene = "BlockMerging"
    /\ pc = "perform_merging"
    /\ screen' = screen \cup {TitleMob}
    /\ title' = "step 3: perform block merging"
    /\ pc' = "perform_merging:fade_overlay"
    /\ UNCHANGED <<scene, font, stages, cfgVars, boxVars, astVars>>

\* self.play(FadeOut(self.rule_text), FadeOut(self.highlight_boxes),
\*           FadeOut(self.annotations))
PM_FadeOverlay ==
    /\ scene = "BlockMerging"
    /\ pc = "perform_merging:fade_overlay"
    /\ screen' = screen \ (Members(self_overlay.rule_text)
                            \cup Members(self_overlay.highlight_boxes)
                            \cup Members(self_overlay.annotations))
    /\ pc' = "perform_merging:create_merged"
    /\ UNCHANGED <<scene, font, title, stages, cfgVars, boxVars, astVars>>

\* merged_block = self.create_block_box("merged_block", [...], GREEN)
PM_CreateMerged ==
    /\ scene = "BlockMerging"
    /\ pc = "perform_merging:create_merged"
    /\ merged_block' = BlockMerging_create_block_box("merged_block",
                           BM_merged_statements, "GREEN")
    /\ pc' = "perform_merging:fade_old"
    /\ UNCHANGED <<scene, font, screen, title, stages, blocks, arrows, self_blocks,
                   self_arrows, new_arrows, self_overlay, boxVars,
                   astVars>>

\* blocks_to_remove, arrows_to_remove
BM_blocks_to_remove(bs) ==
    [k \in 1..Len(BM_blocks_to_remove_idx) |-> PyIndex(bs, BM_blocks_to_remove_idx[k])]
BM_arrows_to_remove(as) ==
    [k \in 1..Len(BM_arrows_to_remove_idx) |-> PyIndex(as, BM_arrows_to_remove_idx[k])]

\* self.play(*[FadeOut(block) for block in blocks_to_remove],
\*           *[FadeOut(arrow) for arrow in arrows_to_remove], run_time=1)
PM_FadeOld ==
    /\ scene = "BlockMerging"
    /\ pc = "perform_merging:fade_old"
    /\ \A k \in 1..Len(BM_blocks_to_remove_idx) :
           PyInRange(self_blocks, BM_blocks_to_remove_idx[k])
    /\ \A k \in 1..Len(BM_arrows_to_remove_idx) :
           PyInRange(self_arrows, BM_arrows_to_remove_idx[k])
    /\ screen' = screen \ (Members(BM_blocks_to_remove(self_blocks))
                            \cup Members(BM_arrows_to_remove(self_arrows)))
    /\ pc' = "perform_merging:play_merged"
    /\ UNCHANGED <<scene, font, title, stages, cfgVars, boxVars, astVars>>

\* self.play(Create(merged_block), run_time=1)
PM_PlayMerged ==
    /\ scene = "BlockMerging"
    /\ pc = "perform_merging:play_merged"
    /\ screen' = screen \cup {merged_block}
    /\ pc' = "perform_merging:new_arrows"
    /\ UNCHANGED <<scene, font, title, stages, cfgVars, boxVars, astVars>>

\* Mutant: the second new arrow drawn to blocks[5], past the condition
BM_new_arrows_past_condition(bs, merged) ==
    << BlockMerging_create_arrow(PyIndex(bs, 0), merged, None, 0, -1),
       BlockMerging_create_arrow(merged, PyIndex(bs, 5), None, -1, 5) >>

\* new_arrow1 = self.create_arrow(self.blocks[0], merged_block, None, 0, -1)
\* new_arrow2 = self.create_arrow(merged_block, self.blocks[4], None, -1, 4)
BM_new_arrows(bs, merged) ==
    << BlockMerging_create_arrow(PyIndex(bs, 0), merged, None, 0, -1),
       BlockMerging_create_arrow(merged, PyIndex(bs, 4), None, -1, 4) >>

PM_NewArrows ==
    /\ scene = "BlockMerging"
    /\ pc = "perform_merging:new_arrows"
    /\ PyInRange(self_blocks, 0)
    /\ PyInRange(self_blocks, 4)
    /\ new_arrows' = BM_new_arrows(self_blocks, merged_block)
    /\ pc' = "perform_merging:play_new_arrows"
    /\ UNCHANGED <<scene, font, screen, title, stages, blocks, arrows, self_blocks,
                   self_arrows, merged_block, self_overlay, boxVars,
                   astVars>>

\* self.play(Create(new_arrow1), Create(new_arrow2), run_time=1)
PM_PlayNewArrows ==
    /\ scene = "BlockMerging"
    /\ pc = "perform_merging:play_new_arrows"
    /\ screen' = screen \cup Members(new_arrows)
    /\ pc' = "perform_merging:update_blocks"
    /\ UNCHANGED <<scene, font, title, stages, cfgVars, boxVars, astVars>>

\* VGroup(self.blocks[0], merged_block, self.blocks[4], .., self.blocks[8])
BM_updated_blocks(bs, merged) ==
    <<PyIndex(bs, 0), merged>>
        \o [k \in 1..Len(BM_kept_block_idx) |-> PyIndex(bs, BM_kept_block_idx[k])]

\* VGroup(new_arrow1, new_arrow2, self.arrows[4], .., self.arrows[8])
BM_updated_arrows(as, new) ==
    new \o [k \in 1..Len(BM_kept_arrow_idx) |-> PyIndex(as, BM_kept_arrow_idx[k])]

\* self.blocks = VGroup(...)
PM_UpdateBlocks ==
    /\ scene = "BlockMerging"
    /\ pc = "perform_merging:update_blocks"
    /\ \A k \in 1..Len(BM_kept_block_idx) : PyInRange(self_blocks, BM_kept_block_idx[k])
    /\ self_blocks' = BM_updated_blocks(self_blocks, merged_block)
    /\ pc' = "perform_merging:update_arrows"
    /\ UNCHANGED <<scene, font, screen, title, stages, blocks, arrows, self_arrows,
                   merged_block, new_arrows, self_overlay, boxVars,
                   astVars>>

\* self.arrows = VGroup(...); self.merged_block = merged_block; return
PM_UpdateArrows ==
    /\ scene = "BlockMerging"
    /\ pc = "perform_merging:update_arrows"
    /\ \A k \in 1..Len(BM_kept_arrow_idx) : PyInRange(self_arrows, BM_kept_arrow_idx[k])
    /\ self_arrows' = BM_updated_arrows(self_arrows, new_arrows)
    /\ pc' = "wait"
    /\ UNCHANGED <<scene, font, screen, title, stages, blocks, arrows, self_blocks,
                   merged_block, new_arrows, self_overlay, boxVars,
                   astVars>>

----------------------------------------------------------------------------
(* BlockMerging.show_final_merged_cfg                                       *)

\* self.play(Transform(self.title, new_title))
ShowFinal_PlayTitle ==
    /\ scene = "BlockMerging"
    /\ pc = "show_final_merged_cfg"
    /\ screen' = screen \cup {TitleMob}
    /\ title' = "step 4: merged CFG"
    /\ pc' = "show_final_merged_cfg:play_opacity"
    /\ UNCHANGED <<scene, font, stages, cfgVars, boxVars, astVars>>

\* self.play(*[block.animate.set_opacity(1.0) for block in self.blocks],
\*           *[arrow.animate.set_opacity(1.0) for arrow in self.arrows])
ShowFinal_PlayOpacity ==
    /\ scene = "BlockMerging"
    /\ pc = "show_final_merged_cfg:play_opacity"
    /\ screen' = screen \cup Members(self_blocks) \cup Members(self_arrows)
    /\ pc' = "show_final_merged_cfg:play_note"
    /\ UNCHANGED <<scene, font, title, stages, cfgVars, boxVars, astVars>>

\* self.play(Write(note_lines)); self.note = note_lines; return
ShowFinal_PlayNote ==
    /\ scene = "BlockMerging"
    /\ pc = "show_final_merged_cfg:play_note"
    /\ screen' = screen \cup {BM_note}
    /\ pc' = "wait"
    /\ UNCHANGED <<scene, font, title, stages, cfgVars, boxVars, astVars>>


----------------------------------------------------------------------------
(* Python str                                                               *)

\* The characters U+0020..U+005F and U+0061..U+007E, in code point order
\* (U+0060 cannot stand in a literal of the module)
PrintableLow ==
    " !\"#$%&'()*+,-./0123456789:;<=>?@ABCDEFGHIJKLMNOPQRSTUVWXYZ[\\]^_"
PrintableHigh ==
    "abcdefghijklmnopqrstuvwxyz{|}~"

\* ord(c) of a character of a literal of the module
Ord(c) ==
    LET Index(t) == CHOOSE i \in 1..Len(t) : SubSeq(t, i, i) = c
        In(t) == \E i \in 1..Len(t) : SubSeq(t, i, i) = c
    IN  IF c = "\t" THEN 9
        ELSE IF c = "\n" THEN 10
        ELSE IF c = "\f" THEN 12
        ELSE IF c = "\r" THEN 13
        ELSE IF In(PrintableLow) THEN 31 + Index(PrintableLow)
        ELSE 96 + Index(PrintableHigh)

\* the str a literal denotes: the sequence of its code points
Codes(s) == [i \in 1..Len(s) |-> Ord(SubSeq(s, i, i))]

\* The code points str.strip() and str.lstrip() remove (str.isspace): U+0009
\* to U+000D, U+001C to U+001F, U+0020, U+0085, U+00A0, U+1680, U+2000 to
\* U+200A, U+2028, U+2029, U+202F, U+205F and U+3000.
PyWhitespace ==
    (9..13) \cup (28..32) \cup {133, 160, 5760} \cup (8192..8202)
        \cup {8232, 8233, 8239, 8287, 12288}

\* c.isspace() of one character
IsSpace(c) == c \in PyWhitespace

\* str.lstrip()
RECURSIVE Lstrip(_)
Lstrip(s) ==
    IF Len(s) > 0 /\ IsSpace(s[1])
    THEN Lstrip(SubSeq(s, 2, Len(s)))
    ELSE s

\* str.rstrip()
RECURSIVE Rstrip(_)
Rstrip(s) ==
    IF Len(s) > 0 /\ IsSpace(s[Len(s)])
    THEN Rstrip(SubSeq(s, 1, Len(s) - 1))
    ELSE s

\* str.strip()
Strip(s) == Rstrip(Lstrip(s))

\* str.split(sep) for a one-character separator
RECURSIVE Split(_, _)
Split(s, sep) ==
    LET hits == {j \in 1..Len(s) : s[j] = sep}
    IN  IF hits = {} THEN <<s>>
        ELSE LET k == CHOOSE j \in hits : \A h \in hits : j <= h
             IN  <<SubSeq(s, 1, k - 1)>> \o Split(SubSeq(s, k + 1, Len(s)), sep)

\* s * n
RECURSIVE Repeat(_, _)
Repeat(s, n) == IF n <= 0 THEN <<>> ELSE s \o Repeat(s, n - 1)

\* '\n'
NewLine == 10

\* min(list, default=0)
MinOr0(S) == IF S = {} THEN 0 ELSE CHOOSE m \in S : \A n \in S : m <= n

----------------------------------------------------------------------------
(* Literal scene data of ast_generation.py                                  *)

AST_construct ==
    <<"show_source_code", "show_tokenization", "show_parsing", "show_ast_building">>

\* construct: source_code
source_code ==
    Codes("int checkGrade() {\n"
          \o "    int grade = 0;\n"
          \o "    int score = 70;\n"
          \o "    if (score >= 90) {\n"
          \o "        grade = 1;\n"
          \o "    } else {\n"
          \o "        grade = 2;\n"
          \o "    }\n"
          \o "    return grade;\n"
          \o "}")

\* show_tokenization: the category strings of the token list
Keyword == <<20851, 38190, 23383>>          \* U+5173 U+952E U+5B57
Identifier == <<26631, 35782, 31526>>       \* U+6807 U+8BC6 U+7B26
Delimiter == <<20998, 38548, 31526>>        \* U+5206 U+9694 U+7B26
Operator == <<36816, 31639, 31526>>         \* U+8FD0 U+7B97 U+7B26
Literal == <<23383, 38754, 37327>>          \* U+5B57 U+9762 U+91CF

\* show_tokenization: tokens
AST_tokens ==
    << <<Codes("int"), Keyword>>,
       <<Codes("checkGrade"), Identifier>>,
       <<Codes("("), Delimiter>>,
       <<Codes(")"), Delimiter>>,
       <<Codes("{"), Delimiter>>,
       <<Codes("int"), Keyword>>,
       <<Codes("grade"), Identifier>>,
       <<Codes("="), Operator>>,
       <<Codes("0"), Literal>>,
       <<Codes(";"), Delimiter>>,
       <<Codes("if"), Keyword>>,
       <<Codes("("), Delimiter>>,
       <<Codes("score"), Identifier>>,
       <<Codes(">="), Operator>>,
       <<Codes("90"), Literal>>,
       <<Codes(")"), Delimiter>>,
       <<Codes("{"), Delimiter>>,
       <<Codes("grade"), Identifier>>,
       <<Codes("="), Operator>>,
       <<Codes("1"), Literal>>,
       <<Codes(";"), Delimiter>>,
       <<Codes("}"), Delimiter>>,
       <<Codes("else"), Keyword>>,
       <<Codes("{"), Delimiter>>,
       <<Codes("grade"), Identifier>>,
       <<Codes("="), Operator>>,
       <<Codes("2"), Literal>>,
       <<Codes(";"), Delimiter>>,
       <<Codes("}"), Delimiter>>,
       <<Codes("return"), Keyword>>,
       <<Codes("grade"), Identifier>>,
       <<Codes(";"), Delimiter>>,
       <<Codes("}"), Delimiter>> >>

\* show_tokenization: layout of the token grid.  Lengths are in
\* ten-thousandths of a scene unit: x_start = -6, y_pos = 2.5, x_pos += 2.0,
\* y_pos -= 1.2, x_pos > 6.
x_start == -60000
y_start == 25000
x_step == 20000
y_step == 12000
x_limit == 60000
tokens_per_line == 6

\* Text(token, font_size=24, font="monospace"), Text(token_type, font_size=14),
\* type_text.next_to(token_text, DOWN, buff=0.1)
token_font_size == 24
type_font_size == 14
type_buff == 1000

\* all_tokens.scale(0.8), in hundredths; all_tokens.move_to(ORIGIN + DOWN * 0.5)
all_tokens_scale == 80
all_tokens_centre == <<0, -5000>>

\* The extent of a Text is the font's, and the renderer resolves the font:
\* the script names "monospace" for the lexeme and none for the category.  A
\* font is kept as the advance of one character and the height of a line,
\* per point of font_size: glyphs of no extent, and a font whose monospace
\* character is 0.144 wide and 0.24 high at font_size 24 and whose category
\* character is 0.14 wide and high at font_size 14.
Fonts ==
    { [mono_char |-> 0, mono_line |-> 0, type_char |-> 0, type_line |-> 0],
      [mono_char |-> 60, mono_line |-> 100, type_char |-> 100, type_line |-> 100] }

\* show_tokenization: colour of a token type
TokenColor(token_type) ==
    IF token_type = Keyword THEN "YELLOW"
    ELSE IF token_type = Identifier THEN "GREEN"
    ELSE IF token_type = Operator THEN "RED"
    ELSE IF token_type = Literal THEN "BLUE"
    ELSE "WHITE"

\* token_group = VGroup(token_text, type_text): token_text of extent w x h
\* with its centre at (x, y); type_text of extent type_w x type_h below it,
\* centred on the same x, its top edge type_buff under the bottom edge of
\* token_text, so its centre at (x, type_y).
TokenGroup(token, token_type, x, y, f) ==
    LET h == token_font_size * f.mono_line
        th == type_font_size * f.type_line
    IN  [kind |-> "token", text |-> token, type |-> token_type,
         color |-> TokenColor(token_type), x |-> x, y |-> y,
         w |-> Len(token) * token_font_size * f.mono_char, h |-> h,
         type_y |-> y - (h \div 2) - type_buff - (th \div 2),
         type_w |-> Len(token_type) * type_font_size * f.type_char,
         type_h |-> th]

\* show_parsing: rules
AST_rules ==
    [kind |-> "rules",
     lines |-> << "rules:",
                  "1. FunctionDeclaration -> int IDENTIFIER ( ) { BlockStatement }",
                  "2. BlockStatement -> Statement*",
                  "3. Statement -> VariableDeclaration | IfStatement | ReturnStatement",
                  "4. VariableDeclaration -> int IDENTIFIER [= Expression];",
                  "5. IfStatement -> if ( Expression ) Statement [else Statement]",
                  "6. ReturnStatement -> return [Expression];" >>]

\* create_ast_node(text, color, position): position in tenths
create_ast_node(text, color, position) ==
    [kind |-> "node", text |-> Split(text, NewLine), color |-> color,
     position |-> position]

\* Mutant: the arrow drawn from the child to the parent
connect_nodes_reversed(parent, child) ==
    [kind |-> "ast_arrow", src |-> child, dst |-> parent,
     start |-> "bottom", end |-> "top"]

\* connect_nodes(parent, child)
connect_nodes(parent, child) ==
    [kind |-> "ast_arrow", src |-> parent, dst |-> child,
     start |-> "bottom", end |-> "top"]

NodeStmt(var, text, color, position) ==
    [op |-> "node", var |-> var, text |-> text, color |-> color,
     position |-> position]
ConnectStmt(var, parent, child) ==
    [op |-> "connect", var |-> var, parent |-> parent, child |-> child]

\* show_ast_building: the node and arrow constructions, in program order
AST_build ==
    << NodeStmt("program", Codes("Program"), "BLUE", <<0, 35>>),
       NodeStmt("func_decl", Codes("FunctionDeclaration\ncheckGrade"), "GREEN", <<0, 25>>),
       ConnectStmt("arrow1", "program", "func_decl"),
       NodeStmt("block_stmt", Codes("BlockStatement"), "YELLOW", <<0, 15>>),
       ConnectStmt("arrow2", "func_decl", "block_stmt"),
       NodeStmt("var_decl1", Codes("VariableDeclaration\nint grade = 0"), "ORANGE", <<-45, -5>>),
       ConnectStmt("arrow3", "block_stmt", "var_decl1"),
       NodeStmt("var_decl2", Codes("VariableDeclaration\nint score = 70"), "ORANGE", <<-15, -5>>),
       ConnectStmt("arrow4", "block_stmt", "var_decl2"),
       NodeStmt("if_stmt", Codes("IfStatement"), "RED", <<15, -5>>),
       ConnectStmt("arrow5", "block_stmt", "if_stmt"),
       NodeStmt("return_stmt", Codes("ReturnStatement\nreturn grade"), "BLUE", <<45, -5>>),
       ConnectStmt("arrow9", "block_stmt", "return_stmt"),
       NodeStmt("condition", Codes("BinaryExpression\n>=\nscore, 90"), "PURPLE", <<15, -18>>),
       ConnectStmt("arrow6", "if_stmt", "condition"),
       NodeStmt("then_branch", Codes("AssignmentStatement\ngrade = 1"), "GREEN", <<3, -32>>),
       ConnectStmt("arrow7", "if_stmt", "then_branch"),
       NodeStmt("else_branch", Codes("AssignmentStatement\ngrade = 2"), "GREEN", <<27, -32>>),
       ConnectStmt("arrow8", "if_stmt", "else_branch") >>

\* show_ast_building: all_nodes, all_arrows
AST_all_nodes ==
    <<"program", "func_decl", "block_stmt", "var_decl1", "var_decl2", "if_stmt",
      "condition", "then_branch", "else_branch", "return_stmt">>
AST_all_arrows ==
    <<"arrow1", "arrow2", "arrow3", "arrow4", "arrow5", "arrow6", "arrow7",
      "arrow8", "arrow9">>

\* Mutant: IfStatement revealed in the same play as the two declarations
AST_plays_if_with_declarations ==
    << <<"program">>,
       <<"func_decl", "arrow1">>,
       <<"block_stmt", "arrow2">>,
       <<"var_decl1", "arrow3", "var_decl2", "arrow4", "if_stmt", "arrow5">>,
       <<"condition", "arrow6", "then_branch", "arrow7", "else_branch", "arrow8">>,
       <<"return_stmt", "arrow9">> >>

\* Mutant: the children of IfStatement played before IfStatement itself
AST_plays_children_first ==
    << <<"program">>,
       <<"func_decl", "arrow1">>,
       <<"block_stmt", "arrow2">>,
       <<"var_decl1", "arrow3", "var_decl2", "arrow4">>,
       <<"condition", "arrow6", "then_branch", "arrow7", "else_branch", "arrow8">>,
       <<"if_stmt", "arrow5">>,
       <<"return_stmt", "arrow9">> >>

\* show_ast_building: the self.play calls, each a list of Create(..) targets
AST_plays ==
    << <<"program">>,
       <<"func_decl", "arrow1">>,
       <<"block_stmt", "arrow2">>,
       <<"var_decl1", "arrow3", "var_decl2", "arrow4">>,
       <<"if_stmt", "arrow5">>,
       <<"condition", "arrow6", "then_branch", "arrow7", "else_branch", "arrow8">>,
       <<"return_stmt", "arrow9">> >>

CodeBox == [kind |-> "code_box"]


----------------------------------------------------------------------------
(* ASTGeneration.construct                                                  *)

AST_CallStage ==
    /\ CallStage("ASTGeneration", AST_construct)
    /\ UNCHANGED <<scene, font, screen, title, cfgVars, boxVars, astVars>>

AST_Wait ==
    /\ Wait("ASTGeneration", AST_construct)
    /\ UNCHANGED <<scene, font, screen, title, cfgVars, boxVars, astVars>>

----------------------------------------------------------------------------
(* ASTGeneration.show_source_code                                           *)

Indent(line) == Len(line) - Len(Lstrip(line))

\* min_indent = min([indent of line for the non-blank lines], default=0)
MinIndent(lines) ==
    MinOr0({Indent(lines[k]) : k \in {n \in 1..Len(lines) : Len(Strip(lines[n])) > 0}})

\* the text of the Text mobject built for one line
FormattedLine(line, min_indent) ==
    IF Len(Strip(line)) = 0
    THEN <<>>
    ELSE Repeat(Codes("    "), (Indent(line) - min_indent) \div 4) \o Lstrip(line)

CodeLine(n, text) == [kind |-> "code_line", n |-> n, text |-> text]

\* code_lines = code.strip().split('\n'); code_group = VGroup()
SRC_Split ==
    /\ scene = "ASTGeneration"
    /\ pc = "show_source_code"
    /\ code_lines' = Split(Strip(source_code), NewLine)
    /\ code_group' = <<>>
    /\ iters' = 0
    /\ pc' = "show_source_code:lines"
    /\ UNCHANGED <<scene, font, screen, title, stages, self_code, tokVars, treeVars,
                   cfgVars, boxVars>>

\* one iteration of `for line in code_lines`
SRC_Line ==
    /\ scene = "ASTGeneration"
    /\ pc = "show_source_code:lines"
    /\ iters < Len(code_lines)
    /\ code_group' = Append(code_group,
           CodeLine(iters, FormattedLine(code_lines[iters + 1], MinIndent(code_lines))))
    /\ iters' = iters + 1
    /\ IF iters' = Len(code_lines)
       THEN pc' = "show_source_code:play_title" ELSE pc' = pc
    /\ UNCHANGED <<scene, font, screen, title, stages, code_lines, self_code, tokVars,
                   treeVars, cfgVars, boxVars>>

\* self.play(Write(title))
SRC_PlayTitle ==
    /\ scene = "ASTGeneration"
    /\ pc = "show_source_code:play_title"
    /\ screen' = screen \cup {TitleMob}
    /\ title' = "step 1: source code"
    /\ pc' = "show_source_code:play_code"
    /\ UNCHANGED <<scene, font, stages, astVars, cfgVars, boxVars>>

\* self.play(Create(code_box), Write(code_group), run_time=2)
SRC_PlayCode ==
    /\ scene = "ASTGeneration"
    /\ pc = "show_source_code:play_code"
    /\ screen' = screen \cup {CodeBox} \cup Members(code_group)
    /\ pc' = "show_source_code:assign"
    /\ UNCHANGED <<scene, font, title, stages, astVars, cfgVars, boxVars>>

\* self.title = title; self.code_group = code_group; self.code_box = code_box
SRC_Assign ==
    /\ scene = "ASTGeneration"
    /\ pc = "show_source_code:assign"
    /\ self_code' = [code_box |-> <<CodeBox>>, code_group |-> code_group]
    /\ pc' = "wait"
    /\ UNCHANGED <<scene, font, screen, title, stages, code_lines, code_group, iters,
                   tokVars, treeVars, cfgVars, boxVars>>

----------------------------------------------------------------------------
(* ASTGeneration.show_tokenization                                          *)

\* self.play(Transform(self.title, new_title))
TOK_PlayTitle ==
    /\ scene = "ASTGeneration"
    /\ pc = "show_tokenization"
    /\ screen' = screen \cup {TitleMob}
    /\ title' = "step 2: tokenization"
    /\ pc' = "show_tokenization:fade_source"
    /\ UNCHANGED <<scene, font, stages, astVars, cfgVars, boxVars>>

\* self.play(FadeOut(self.code_box), FadeOut(self.code_group))
TOK_FadeSource ==
    /\ scene = "ASTGeneration"
    /\ pc = "show_tokenization:fade_source"
    /\ screen' = screen \ (Members(self_code.code_box) \cup Members(self_code.code_group))
    /\ pc' = "show_tokenization:init"
    /\ UNCHANGED <<scene, font, title, stages, astVars, cfgVars, boxVars>>

\* tokens = [...]; token_groups = []; current_line = VGroup(); x_pos = x_start;
\* y_pos = 2.5; tokens_in_line = 0
TOK_Init ==
    /\ scene = "ASTGeneration"
    /\ pc = "show_tokenization:init"
    /\ tokens' = AST_tokens
    /\ token_groups' = <<>>
    /\ current_line' = <<>>
    /\ x_pos' = x_start
    /\ y_pos' = y_start
    /\ tokens_in_line' = 0
    /\ iters' = 0
    /\ pc' = "show_tokenization:loop"
    /\ UNCHANGED <<scene, font, screen, title, stages, srcVars, self_token_groups,
                   treeVars, cfgVars, boxVars>>

\* one iteration of `for token, token_type in tokens`
TOK_Loop ==
    /\ pc = "show_tokenization:loop"
    /\ iters < Len(tokens)
    /\ LET tok  == tokens[iters + 1]
           line == Append(current_line, TokenGroup(tok[1], tok[2], x_pos, y_pos, font))
       IN  IF tokens_in_line + 1 >= tokens_per_line \/ x_pos + x_step > x_limit
           THEN /\ x_pos' = x_start
                /\ y_pos' = y_pos - y_step
                /\ tokens_in_line' = 0
                /\ token_groups' = Append(token_groups, line)
                /\ current_line' = <<>>
           ELSE /\ x_pos' = x_pos + x_step
                /\ y_pos' = y_pos
                /\ tokens_in_line' = tokens_in_line + 1
                /\ token_groups' = token_groups
                /\ current_line' = line
    /\ iters' = iters + 1
    /\ UNCHANGED <<scene, font, pc, screen, title, stages, srcVars, tokens,
                   self_token_groups, treeVars, cfgVars, boxVars>>

\* Mutant: the unfinished last line is never appended
FlushLine_dropped(groups, line) == groups

\* Mutant: the last line is appended even when it is empty
FlushLine_always(groups, line) == Append(groups, line)

\* if len(current_line) > 0: token_groups.append(current_line)
FlushLine(groups, line) ==
    IF Len(line) > 0 THEN Append(groups, line) ELSE groups

\* the statement after the token loop
TOK_Flush ==
    /\ pc = "show_tokenization:loop"
    /\ iters = Len(tokens)
    /\ token_groups' = FlushLine(token_groups, current_line)
    /\ iters' = 0
    /\ pc' = "show_tokenization:normalise"
    /\ UNCHANGED <<scene, font, screen, title, stages, srcVars, tokens, current_line,
                   x_pos, y_pos, tokens_in_line, self_token_groups, treeVars,
                   cfgVars, boxVars>>

\* [item for group in groups for item in group]
RECURSIVE Flatten(_)
Flatten(groups) ==
    IF Len(groups) = 0 THEN <<>> ELSE Head(groups) \o Flatten(Tail(groups))

\* the edges of the bounding box of a token group
Left(t) == t.x - ((IF t.w >= t.type_w THEN t.w ELSE t.type_w) \div 2)
Right(t) == t.x + ((IF t.w >= t.type_w THEN t.w ELSE t.type_w) \div 2)
Top(t) == t.y + (t.h \div 2)
Bottom(t) == t.type_y - (t.type_h \div 2)

\* VGroup.get_center(): the centre of the bounding box of the token groups
GroupCentre(S) ==
    LET Min(N) == CHOOSE a \in N : \A b \in N : a <= b
        Max(N) == CHOOSE a \in N : \A b \in N : a >= b
    IN  <<(Min({Left(t) : t \in S}) + Max({Right(t) : t \in S})) \div 2,
          (Min({Bottom(t) : t \in S}) + Max({Top(t) : t \in S})) \div 2>>

\* a length after scale(0.8)
Scaled(d) == (all_tokens_scale * d) \div 100

\* a token group after all_tokens.scale(0.8) about the centre c of all_tokens
\* and all_tokens.move_to(ORIGIN + DOWN * 0.5)
Normalised(t, c) ==
    [t EXCEPT !.x = all_tokens_centre[1] + Scaled(t.x - c[1]),
              !.y = all_tokens_centre[2] + Scaled(t.y - c[2]),
              !.type_y = all_tokens_centre[2] + Scaled(t.type_y - c[2]),
              !.w = Scaled(t.w), !.h = Scaled(t.h),
              !.type_w = Scaled(t.type_w), !.type_h = Scaled(t.type_h)]

\* all_tokens = VGroup(*[item for group in token_groups for item in group]);
\* all_tokens.scale(0.8); all_tokens.move_to(ORIGIN + DOWN * 0.5).
\* The token groups are moved in place: the lines of token_groups and
\* current_line hold the same objects.
TOK_Normalise ==
    /\ pc = "show_tokenization:normalise"
    /\ LET c == GroupCentre(Members(Flatten(token_groups)))
       IN  /\ token_groups' =
                  [k \in 1..Len(token_groups) |->
                      [j \in 1..Len(token_groups[k]) |->
                          Normalised(token_groups[k][j], c)]]
           /\ current_line' =
                  [j \in 1..Len(current_line) |-> Normalised(current_line[j], c)]
    /\ pc' = "show_tokenization:play"
    /\ UNCHANGED <<scene, font, screen, title, stages, srcVars, tokens, x_pos, y_pos,
                   tokens_in_line, self_token_groups, iters, treeVars, cfgVars,
                   boxVars>>

\* one iteration of `for i, group in enumerate(token_groups)`:
\* self.play(*[Write(item) for item in group], run_time=0.3)
TOK_PlayLine ==
    /\ pc = "show_tokenization:play"
    /\ iters < Len(token_groups)
    /\ screen' = screen \cup Members(token_groups[iters + 1])
    /\ iters' = iters + 1
    /\ UNCHANGED <<scene, font, pc, title, stages, srcVars, tokVars, treeVars,
                   cfgVars, boxVars>>

\* self.token_groups = token_groups; return
TOK_Assign ==
    /\ pc = "show_tokenization:play"
    /\ iters = Len(token_groups)
    /\ self_token_groups' = token_groups
    /\ pc' = "wait"
    /\ UNCHANGED <<scene, font, screen, title, stages, srcVars, tokens, current_line,
                   token_groups, x_pos, y_pos, tokens_in_line, iters, treeVars,
                   cfgVars, boxVars>>

----------------------------------------------------------------------------
(* ASTGeneration.show_parsing                                               *)

\* Mutant: only the first line of tokens is faded out
ParsingFadeTargets_first_line(groups) ==
    IF Len(groups) = 0 THEN {} ELSE Members(Head(groups))

\* the targets of show_parsing's FadeOut
ParsingFadeTargets(groups) == Members(Flatten(groups))

\* self.play(Transform(self.title, new_title))
PARSE_PlayTitle ==
    /\ scene = "ASTGeneration"
    /\ pc = "show_parsing"
    /\ screen' = screen \cup {TitleMob}
    /\ title' = "step 3: parsing"
    /\ pc' = "show_parsing:fade_tokens"
    /\ UNCHANGED <<scene, font, stages, astVars, cfgVars, boxVars>>

\* self.play(FadeOut(*[item for group in self.token_groups for item in group]))
PARSE_FadeTokens ==
    /\ scene = "ASTGeneration"
    /\ pc = "show_parsing:fade_tokens"
    /\ screen' = screen \ ParsingFadeTargets(self_token_groups)
    /\ pc' = "show_parsing:play_rules"
    /\ UNCHANGED <<scene, font, title, stages, astVars, cfgVars, boxVars>>

\* self.play(Write(rules), run_time=3)
PARSE_PlayRules ==
    /\ scene = "ASTGeneration"
    /\ pc = "show_parsing:play_rules"
    /\ screen' = screen \cup {AST_rules}
    /\ pc' = "show_parsing:assign"
    /\ UNCHANGED <<scene, font, title, stages, astVars, cfgVars, boxVars>>

\* self.rules = rules; return
PARSE_Assign ==
    /\ scene = "ASTGeneration"
    /\ pc = "show_parsing:assign"
    /\ self_rules' = <<AST_rules>>
    /\ pc' = "wait"
    /\ UNCHANGED <<scene, font, screen, title, stages, srcVars, tokVars, iters, env,
                   self_ast_nodes, self_ast_arrows, cfgVars, boxVars>>

----------------------------------------------------------------------------
(* ASTGeneration.show_ast_building                                          *)

\* self.play(Transform(self.title, new_title))
TREE_PlayTitle ==
    /\ scene = "ASTGeneration"
    /\ pc = "show_ast_building"
    /\ screen' = screen \cup {TitleMob}
    /\ title' = "step 4: AST building"
    /\ pc' = "show_ast_building:fade_rules"
    /\ UNCHANGED <<scene, font, stages, astVars, cfgVars, boxVars>>

\* self.play(FadeOut(self.rules)); self.connections = []
TREE_FadeRules ==
    /\ scene = "ASTGeneration"
    /\ pc = "show_ast_building:fade_rules"
    /\ Len(self_rules) > 0
    /\ screen' = screen \ Members(self_rules)
    /\ iters' = 0
    /\ pc' = "show_ast_building:build"
    /\ UNCHANGED <<scene, font, title, stages, srcVars, tokVars, treeVars, cfgVars,
                   boxVars>>

\* the mobject one construction statement binds to its variable
Built(stmt, e) ==
    IF stmt.op = "node"
    THEN create_ast_node(stmt.text, stmt.color, stmt.position)
    ELSE connect_nodes(e[stmt.parent], e[stmt.child])

\* the next `x = self.create_ast_node(..)` or `arrowN = self.connect_nodes(..)`
TREE_Build ==
    /\ scene = "ASTGeneration"
    /\ pc = "show_ast_building:build"
    /\ iters < Len(AST_build)
    /\ LET stmt == AST_build[iters + 1]
       IN  /\ stmt.op = "connect" => {stmt.parent, stmt.child} \subseteq DOMAIN env
           /\ env' = [v \in DOMAIN env \cup {stmt.var} |->
                         IF v = stmt.var THEN Built(stmt, env) ELSE env[v]]
    /\ iters' = iters + 1
    /\ UNCHANGED <<scene, font, pc, screen, title, stages, srcVars, tokVars, self_rules,
                   self_ast_nodes, self_ast_arrows, cfgVars, boxVars>>

\* all_nodes = [...]; all_arrows = [...]
TREE_Lists ==
    /\ scene = "ASTGeneration"
    /\ pc = "show_ast_building:build"
    /\ iters = Len(AST_build)
    /\ Members(AST_all_nodes) \cup Members(AST_all_arrows) \subseteq DOMAIN env
    /\ iters' = 0
    /\ pc' = "show_ast_building:play"
    /\ UNCHANGED <<scene, font, screen, title, stages, srcVars, tokVars, treeVars,
                   cfgVars, boxVars>>

\* the next self.play(Create(..), ..) of the reveal
TREE_Play ==
    /\ scene = "ASTGeneration"
    /\ pc = "show_ast_building:play"
    /\ iters < Len(AST_plays)
    /\ Members(AST_plays[iters + 1]) \subseteq DOMAIN env
    /\ screen' = screen \cup {env[v] : v \in Members(AST_plays[iters + 1])}
    /\ iters' = iters + 1
    /\ UNCHANGED <<scene, font, pc, title, stages, srcVars, tokVars, treeVars, cfgVars,
                   boxVars>>

\* self.ast_nodes = all_nodes; self.ast_arrows = all_arrows; return
TREE_Assign ==
    /\ scene = "ASTGeneration"
    /\ pc = "show_ast_building:play"
    /\ iters = Len(AST_plays)
    /\ self_ast_nodes' = [k \in 1..Len(AST_all_nodes) |-> env[AST_all_nodes[k]]]
    /\ self_ast_arrows' = [k \in 1..Len(AST_all_arrows) |-> env[AST_all_arrows[k]]]
    /\ pc' = "wait"
    /\ UNCHANGED <<scene, font, screen, title, stages, srcVars, tokVars, self_rules,
                   env, iters, cfgVars, boxVars>>


----------------------------------------------------------------------------
(* The scenes: one render runs one Scene class from its construct.          *)

Scenes == {"ASTGeneration", "IdentifyBasicBlocks", "BuildBasicBlocks",
           "FinalCFG", "BlockMerging", "AllSteps"}

vars == <<scene, font, pc, screen, title, stages, cfgVars, boxVars, astVars>>

\* The state of a Scene object when construct is entered
Fresh ==
    /\ screen = {}
    /\ title = None
    /\ stages = <<>>
    /\ blocks = <<>>
    /\ arrows = <<>>
    /\ self_blocks = <<>>
    /\ self_arrows = <<>>
    /\ merged_block = Unbound
    /\ new_arrows = <<>>
    /\ self_overlay = [rule_text |-> <<>>, highlight_boxes |-> <<>>,
                       annotations |-> <<>>]
    /\ code_lines = <<>>
    /\ code_group = <<>>
    /\ self_code = [code_box |-> <<>>, code_group |-> <<>>]
    /\ tokens = <<>>
    /\ iters = 0
    /\ current_line = <<>>
    /\ token_groups = <<>>
    /\ x_pos = 0
    /\ y_pos = 0
    /\ tokens_in_line = 0
    /\ self_token_groups = <<>>
    /\ self_rules = <<>>
    /\ env = <<>>
    /\ self_ast_nodes = <<>>
    /\ self_ast_arrows = <<>>

Init ==
    /\ scene \in Scenes
    /\ font \in Fonts
    /\ pc = "construct"
    /\ statements = <<>>
    /\ block = Unbound
    /\ Fresh

Next ==
    \/ IBB_Add
    \/ AllSteps_Pass
    \/ BB_AddBlock
    \/ BB_Add
    \/ FC_AddBlock
    \/ FC_Connect
    \/ FC_Add
    \/ BM_CallStage
    \/ BM_Wait
    \/ SIB_AddBlock
    \/ SIB_Connect
    \/ SIB_PlayTitle
    \/ SIB_PlayBlocks
    \/ SIB_PlayArrows
    \/ SIB_Assign
    \/ IMB_PlayTitle
    \/ IMB_PlayRule
    \/ IMB_PlayHighlights
    \/ IMB_PlayAnnotations
    \/ IMB_Assign
    \/ PM_PlayTitle
    \/ PM_FadeOverlay
    \/ PM_CreateMerged
    \/ PM_FadeOld
    \/ PM_PlayMerged
    \/ PM_NewArrows
    \/ PM_PlayNewArrows
    \/ PM_UpdateBlocks
    \/ PM_UpdateArrows
    \/ ShowFinal_PlayTitle
    \/ ShowFinal_PlayOpacity
    \/ ShowFinal_PlayNote
    \/ AST_CallStage
    \/ AST_Wait
    \/ SRC_Split
    \/ SRC_Line
    \/ SRC_PlayTitle
    \/ SRC_PlayCode
    \/ SRC_Assign
    \/ TOK_PlayTitle
    \/ TOK_FadeSource
    \/ TOK_Init
    \/ TOK_Loop
    \/ TOK_Flush
    \/ TOK_Normalise
    \/ TOK_PlayLine
    \/ TOK_Assign
    \/ PARSE_PlayTitle
    \/ PARSE_FadeTokens
    \/ PARSE_PlayRules
    \/ PARSE_Assign
    \/ TREE_PlayTitle
    \/ TREE_FadeRules
    \/ TREE_Build
    \/ TREE_Lists
    \/ TREE_Play
    \/ TREE_Assign

Spec == Init /\ [][Next]_vars

----------------------------------------------------------------------------
(* The box builder on its own: create_block_box of each scene class applied *)
(* to a statement list.                                                     *)

\* longest statement list drawn
MaxStatements == 3

\* the statement strings the scenes pass to create_block_box
StatementUniverse ==
    UNION {Members(BB_block_defs[k].statements) : k \in 1..Len(BB_block_defs)}
    \cup UNION {Members(FC_block_defs[k].statements) : k \in 1..Len(FC_block_defs)}
    \cup UNION {Members(BM_block_defs[k].statements) : k \in 1..Len(BM_block_defs)}
    \cup Members(BM_merged_statements)

SeqsUpTo(S, n) == UNION {[1..m -> S] : m \in 0..n}

BoxClasses == {"BuildBasicBlocks", "FinalCFG", "BlockMerging"}

BoxInit ==
    /\ scene \in BoxClasses
    /\ font \in Fonts
    /\ pc = "call"
    /\ statements \in SeqsUpTo(StatementUniverse, MaxStatements)
    /\ block = Unbound
    /\ Fresh

BoxCall_BuildBasicBlocks ==
    /\ scene = "BuildBasicBlocks"
    /\ pc = "call"
    /\ block' = BuildBasicBlocks_create_block_box("block", statements, "YELLOW")
    /\ pc' = "returned"
    /\ UNCHANGED <<scene, font, screen, title, stages, statements, cfgVars, astVars>>

BoxCall_FinalCFG ==
    /\ scene = "FinalCFG"
    /\ pc = "call"
    /\ block' = FinalCFG_create_block_box("block", statements, "YELLOW")
    /\ pc' = "returned"
    /\ UNCHANGED <<scene, font, screen, title, stages, statements, cfgVars, astVars>>

BoxCall_BlockMerging ==
    /\ scene = "BlockMerging"
    /\ pc = "call"
    /\ block' = BlockMerging_create_block_box("block", statements, "YELLOW")
    /\ pc' = "returned"
    /\ UNCHANGED <<scene, font, screen, title, stages, statements, cfgVars, astVars>>

BoxNext ==
    \/ BoxCall_BuildBasicBlocks
    \/ BoxCall_FinalCFG
    \/ BoxCall_BlockMerging

BoxSpec == BoxInit /\ [][BoxNext]_vars

----------------------------------------------------------------------------
(* The line-breaking loop of show_tokenization on its own: lines 141-207    *)
(* applied to a token list of a given length.                               *)

\* longest token list drawn
MaxTokens == 36

\* a token list of length n: the entries of `tokens`, repeated from the start
\* when n is larger than the list
TokenList(n) ==
    [k \in 1..n |-> AST_tokens[((k - 1) % Len(AST_tokens)) + 1]]

\* the locals as lines 141-147 set them, before the first iteration
LineInit ==
    /\ scene = "ASTGeneration"
    /\ font \in Fonts
    /\ pc = "show_tokenization:loop"
    /\ stages = <<"show_source_code", "show_tokenization">>
    /\ screen = {TitleMob}
    /\ title = "step 2: tokenization"
    /\ tokens \in {TokenList(n) : n \in 0..MaxTokens}
    /\ token_groups = <<>>
    /\ current_line = <<>>
    /\ x_pos = x_start
    /\ y_pos = y_start
    /\ tokens_in_line = 0
    /\ iters = 0
    /\ self_token_groups = <<>>
    /\ blocks = <<>>
    /\ arrows = <<>>
    /\ self_blocks = <<>>
    /\ self_arrows = <<>>
    /\ merged_block = Unbound
    /\ new_arrows = <<>>
    /\ self_overlay = [rule_text |-> <<>>, highlight_boxes |-> <<>>,
                       annotations |-> <<>>]
    /\ code_lines = <<>>
    /\ code_group = <<>>
    /\ self_code = [code_box |-> <<>>, code_group |-> <<>>]
    /\ self_rules = <<>>
    /\ env = <<>>
    /\ self_ast_nodes = <<>>
    /\ self_ast_arrows = <<>>
    /\ statements = <<>>
    /\ block = Unbound

LineNext ==
    \/ TOK_Loop
    \/ TOK_Flush
    \/ TOK_Normalise
    \/ TOK_PlayLine
    \/ TOK_Assign

LineSpec == LineInit /\ [][LineNext]_vars



----------------------------------------------------------------------------
(* Properties                                                               *)

\* The stage method m of scene class cls has just returned
AfterStage(cls, m) ==
    /\ scene = cls
    /\ pc = "wait"
    /\ Len(stages) > 0
    /\ stages[Len(stages)] = m

OnScreen(kind) == {m \in screen : m.kind = kind}

NoDuplicates(seq) == Cardinality(Members(seq)) = Len(seq)

\* C1: when perform_merging has returned, self.arrows is the initial
\* connector list (the list `arrows` built by show_initial_blocks) without the
\* connectors incident to block_1, block_2 or block_3, plus two new connectors
\* entry_block -> merged_block and merged_block -> block_4 (the condition):
\* 4 removed, 2 added, every other connector kept exactly once.
C1_MergedConnectorList ==
    AfterStage("BlockMerging", "perform_merging") =>
        LET merged   == {"block_1", "block_2", "block_3"}
            initial  == Members(arrows)
            incident == {a \in initial : a.src \in merged \/ a.dst \in merged}
            added    == Members(self_arrows) \ initial
        IN  /\ NoDuplicates(arrows)
            /\ NoDuplicates(self_arrows)
            /\ Cardinality(incident) = 4
            /\ Cardinality(added) = 2
            /\ \E a \in added : a.src = "entry_block" /\ a.dst = "merged_block"
            /\ \E a \in added : a.src = "merged_block" /\ a.dst = "block_4"
            /\ Members(self_arrows) = (initial \ incident) \cup added
            /\ Len(self_arrows) = Len(arrows) - 4 + 2

C1_Witness ==
    /\ AfterStage("BlockMerging", "perform_merging")
    /\ Len(arrows) = 9
    /\ Len(self_arrows) = 7

\* C2: when show_initial_blocks has returned, 9 blocks and 9 connectors are
\* on screen; when perform_merging has returned, 7 blocks and 7 connectors are
\* on screen and self.blocks and self.arrows have 7 members each.
C2_BlockAndConnectorCounts ==
    /\ AfterStage("BlockMerging", "show_initial_blocks") =>
           /\ Cardinality(OnScreen("block")) = 9
           /\ Cardinality(OnScreen("arrow")) = 9
    /\ AfterStage("BlockMerging", "perform_merging") =>
           /\ Cardinality(OnScreen("block")) = 7
           /\ Cardinality(OnScreen("arrow")) = 7
           /\ Len(self_blocks) = 7
           /\ Len(self_arrows) = 7

C2_Witness ==
    /\ AfterStage("BlockMerging", "perform_merging")
    /\ merged_block \in screen
    /\ Cardinality(OnScreen("block")) = 7

\* C3: when show_ast_building has returned, all_nodes has 10 nodes and
\* all_arrows 9 connectors, each connector joins two of the nodes, the Program
\* node is the destination of no connector and every other node is the
\* destination of exactly one.
C3_AstIsTree ==
    AfterStage("ASTGeneration", "show_ast_building") =>
        LET InDegree(n) ==
                Cardinality({k \in 1..Len(self_ast_arrows) : self_ast_arrows[k].dst = n})
        IN  /\ Len(self_ast_nodes) = 10
            /\ NoDuplicates(self_ast_nodes)
            /\ Len(self_ast_arrows) = 9
            /\ Len(self_ast_arrows) = Len(self_ast_nodes) - 1
            /\ \A k \in 1..Len(self_ast_arrows) :
                   /\ self_ast_arrows[k].src \in Members(self_ast_nodes)
                   /\ self_ast_arrows[k].dst \in Members(self_ast_nodes)
            /\ \A n \in Members(self_ast_nodes) :
                   InDegree(n) = IF n.text = <<Codes("Program")>> THEN 0 ELSE 1
            /\ \E n \in Members(self_ast_nodes) : n.text = <<Codes("Program")>>

C3_Witness ==
    /\ AfterStage("ASTGeneration", "show_ast_building")
    /\ Len(self_ast_arrows) = 9
    /\ \E n \in Members(self_ast_nodes) : n.text = <<Codes("Program")>> /\ n \in screen

\* C4: once the 9 blocks of show_initial_blocks exist, every source and
\* destination index of every connection tuple is >= 0 and < 9, and each arrow
\* built so far joins the blocks its tuple names; likewise for the 6 tuples
\* and 6 blocks of FinalCFG.
C4_ConnectionIndicesInRange ==
    /\ (scene = "BlockMerging" /\ Len(blocks) = Len(BM_block_defs)) =>
           /\ Len(blocks) = 9
           /\ \A k \in 1..Len(BM_connections) :
                  /\ 0 <= BM_connections[k][1] /\ BM_connections[k][1] < Len(blocks)
                  /\ 0 <= BM_connections[k][2] /\ BM_connections[k][2] < Len(blocks)
           /\ \A k \in 1..Len(arrows) :
                  /\ arrows[k].src = blocks[BM_connections[k][1] + 1].id
                  /\ arrows[k].dst = blocks[BM_connections[k][2] + 1].id
    /\ (scene = "FinalCFG" /\ Len(blocks) = Len(FC_block_defs)) =>
           /\ Len(blocks) = 6
           /\ Len(FC_connections) = 6
           /\ \A k \in 1..Len(FC_connections) :
                  /\ 0 <= FC_connections[k][1] /\ FC_connections[k][1] < Len(blocks)
                  /\ 0 <= FC_connections[k][2] /\ FC_connections[k][2] < Len(blocks)
           /\ \A k \in 1..Len(arrows) :
                  /\ arrows[k].src = blocks[FC_connections[k][1] + 1].id
                  /\ arrows[k].dst = blocks[FC_connections[k][2] + 1].id

C4_Witness ==
    /\ scene = "BlockMerging"
    /\ Len(blocks) = 9
    /\ Len(arrows) = 9
    /\ arrows[9].dst = "exit_block"

\* Exactly one connector of the list is labelled "true" and exactly one
\* "false", both leave the block cond, and every other connector has no label.
LabelsAsBranches(list, cond) ==
    /\ Cardinality({k \in 1..Len(list) : list[k].label = "true"}) = 1
    /\ Cardinality({k \in 1..Len(list) : list[k].label = "false"}) = 1
    /\ \A k \in 1..Len(list) :
           \/ list[k].label = None
           \/ list[k].label \in {"true", "false"} /\ list[k].src = cond.id

\* The same of a list of connection tuples and the index of the condition
TupleLabelsAsBranches(list, condIdx) ==
    /\ Cardinality({k \in 1..Len(list) : list[k][3] = "true"}) = 1
    /\ Cardinality({k \in 1..Len(list) : list[k][3] = "false"}) = 1
    /\ \A k \in 1..Len(list) :
           \/ list[k][3] = None
           \/ list[k][3] \in {"true", "false"} /\ list[k][1] = condIdx

\* C5: in the initial connection list of BlockMerging and in that of FinalCFG
\* (the tuples and the connectors built from them) exactly one connector is
\* labelled "true" and exactly one "false", both leave the condition block
\* (blocks[4] in BlockMerging, blocks[1] in FinalCFG) and all others are
\* unlabelled; the same holds of self.arrows after perform_merging.
C5_BranchLabels ==
    /\ (scene = "BlockMerging" /\ Len(arrows) = Len(BM_connections)) =>
           /\ TupleLabelsAsBranches(BM_connections, 4)
           /\ LabelsAsBranches(arrows, blocks[5])
           /\ blocks[5].content = <<"if (z > 10)">>
    /\ (scene = "FinalCFG" /\ Len(arrows) = Len(FC_connections)) =>
           /\ TupleLabelsAsBranches(FC_connections, 1)
           /\ LabelsAsBranches(arrows, blocks[2])
           /\ blocks[2].content = <<"if (score >= 90)">>
    /\ AfterStage("BlockMerging", "perform_merging") =>
           LabelsAsBranches(self_arrows, blocks[5])

C5_Witness ==
    /\ AfterStage("BlockMerging", "perform_merging")
    /\ \E k \in 1..Len(self_arrows) :
           self_arrows[k].label = "true" /\ self_arrows[k].src = "block_4"
    /\ \E k \in 1..Len(self_arrows) :
           self_arrows[k].label = "false" /\ self_arrows[k].src = "block_4"

\* C6: when show_tokenization has returned, 33 token groups have been
\* rendered, one per entry of the token list and in its order, each with the
\* entry's lexeme and category; the first three categories are keyword,
\* identifier, delimiter and the last token is the delimiter "}".
C6_ThirtyThreeTokens ==
    AfterStage("ASTGeneration", "show_tokenization") =>
        LET flat == Flatten(self_token_groups)
        IN  /\ Len(flat) = 33
            /\ NoDuplicates(flat)
            /\ OnScreen("token") = Members(flat)
            /\ Cardinality(OnScreen("token")) = 33
            /\ Len(tokens) = 33
            /\ \A k \in 1..Len(flat) :
                   flat[k].text = tokens[k][1] /\ flat[k].type = tokens[k][2]
            /\ <<flat[1].type, flat[2].type, flat[3].type>>
                   = <<Keyword, Identifier, Delimiter>>
            /\ flat[33].text = Codes("}")
            /\ flat[33].type = Delimiter

C6_Witness ==
    /\ AfterStage("ASTGeneration", "show_tokenization")
    /\ Len(self_token_groups) = 6
    /\ Cardinality(OnScreen("token")) = 33


\* The lexemes of a program text: maximal runs of letters, digits and "_",
\* the two-character operators, and every other non-blank character alone.
WordChars ==
    Members(Codes("abcdefghijklmnopqrstuvwxyzABCDEFGHIJKLMNOPQRSTUVWXYZ0123456789_"))

TwoCharOperators ==
    {Codes(">="), Codes("<="), Codes("=="), Codes("!="), Codes("&&"), Codes("||")}

RECURSIVE WordRun(_)
WordRun(s) ==
    IF Len(s) > 0 /\ s[1] \in WordChars
    THEN 1 + WordRun(SubSeq(s, 2, Len(s)))
    ELSE 0

RECURSIVE LineLexemes(_)
LineLexemes(s) ==
    IF Len(s) = 0 THEN <<>>
    ELSE LET c == s[1]
             n == IF IsSpace(c) THEN 1
                  ELSE IF c \in WordChars THEN WordRun(s)
                  ELSE IF Len(s) >= 2 /\ SubSeq(s, 1, 2) \in TwoCharOperators THEN 2
                  ELSE 1
         IN  (IF IsSpace(c) THEN <<>> ELSE <<SubSeq(s, 1, n)>>)
                 \o LineLexemes(SubSeq(s, n + 1, Len(s)))

Lexemes(text) ==
    LET lines == Split(text, NewLine)
    IN  Flatten([k \in 1..Len(lines) |-> LineLexemes(lines[k])])

\* Token groups in reading order: top row first, left to right in a row
RECURSIVE ReadingOrder(_)
ReadingOrder(S) ==
    IF S = {} THEN <<>>
    ELSE LET f == CHOOSE m \in S :
                      \A n \in S : m.y > n.y \/ (m.y = n.y /\ m.x <= n.x)
         IN  <<f>> \o ReadingOrder(S \ {f})

TextsOf(seq) == [k \in 1..Len(seq) |-> seq[k].text]

\* C7 (as claimed): when show_tokenization has returned, the lexemes of the
\* token groups on screen, read left to right and top to bottom, are the
\* lexemes of the source_code literal, all of them and in source order.
C7_TokensAreSourceLexemes ==
    AfterStage("ASTGeneration", "show_tokenization") =>
        TextsOf(ReadingOrder(OnScreen("token"))) = Lexemes(source_code)

\* C8: create_block_box of each of the three scene classes, given a statement
\* list: an empty list yields the single content line "(empty)"; a non-empty
\* list yields one line per statement, in order, and no placeholder; the
\* content is never empty.
C8_BlockContent ==
    pc = "returned" =>
        /\ Len(block.content) > 0
        /\ statements = <<>> => block.content = <<"(empty)">>
        /\ statements # <<>> =>
               /\ Len(block.content) = Len(statements)
               /\ \A k \in 1..Len(statements) : block.content[k] = statements[k]
               /\ \A k \in 1..Len(block.content) : block.content[k] # "(empty)"

C8_Witness ==
    /\ pc = "returned"
    /\ scene = "BlockMerging"
    /\ statements = <<>>
    /\ block.content = <<"(empty)">>

\* C9: once merged_block is built, its statement lines are those of block_1,
\* then those of block_2, then those of block_3 of the initial blocks, with
\* nothing lost, added or reordered.
C9_MergedStatements ==
    (scene = "BlockMerging" /\ merged_block # Unbound) =>
        LET b1 == blocks[2]
            b2 == blocks[3]
            b3 == blocks[4]
        IN  /\ <<b1.id, b2.id, b3.id>> = <<"block_1", "block_2", "block_3">>
            /\ b1.content = BM_block_defs[2].statements
            /\ b2.content = BM_block_defs[3].statements
            /\ b3.content = BM_block_defs[4].statements
            /\ merged_block.id = "merged_block"
            /\ merged_block.content = b1.content \o b2.content \o b3.content

C9_Witness ==
    /\ AfterStage("BlockMerging", "perform_merging")
    /\ merged_block \in screen
    /\ Len(merged_block.content) = 3

\* The stage whose content a mobject is (0: the title, which all stages share)
StageOf(m) ==
    IF m.kind \in {"code_box", "code_line"} THEN 1
    ELSE IF m.kind = "token" THEN 2
    ELSE IF m.kind = "rules" THEN 3
    ELSE IF m.kind \in {"node", "ast_arrow"} THEN 4
    ELSE 0

\* C10: ASTGeneration enters its stages once each in the order source,
\* tokens, grammar rules, tree; at every moment the content on screen (the
\* title aside) belongs to one stage only, the one running or just finished,
\* and the scene ends with the four stages run.
C10_OneStageOnScreen ==
    scene = "ASTGeneration" =>
        LET order  == <<"show_source_code", "show_tokenization", "show_parsing",
                        "show_ast_building">>
            shown  == {StageOf(m) : m \in screen} \ {0}
        IN  /\ Len(stages) <= 4
            /\ stages = SubSeq(order, 1, Len(stages))
            /\ Cardinality(shown) <= 1
            /\ shown \subseteq {Len(stages) - 1, Len(stages)}
            /\ pc = "done" => (Len(stages) = 4 /\ shown = {4})

C10_Witness ==
    /\ scene = "ASTGeneration"
    /\ pc = "done"
    /\ Cardinality(OnScreen("node")) = 10
    /\ OnScreen("token") = {}


----------------------------------------------------------------------------
(* The reveal of the tree (show_ast_building)                               *)

\* the labels (lines of text) of the nodes on screen
RevealedNodes == {m.text : m \in OnScreen("node")}

\* the members of the first k batches
UnionUpTo(batches, k) == UNION {batches[j] : j \in 1..k}

\* node labels as create_ast_node receives them
LabelProgram == <<Codes("Program")>>
LabelFunction == <<Codes("FunctionDeclaration"), Codes("checkGrade")>>
LabelBlock == <<Codes("BlockStatement")>>
LabelVarGrade == <<Codes("VariableDeclaration"), Codes("int grade = 0")>>
LabelVarScore == <<Codes("VariableDeclaration"), Codes("int score = 70")>>
LabelIf == <<Codes("IfStatement")>>
LabelReturn == <<Codes("ReturnStatement"), Codes("return grade")>>
LabelCondition == <<Codes("BinaryExpression"), Codes(">="), Codes("score, 90")>>
LabelThen == <<Codes("AssignmentStatement"), Codes("grade = 1")>>
LabelElse == <<Codes("AssignmentStatement"), Codes("grade = 2")>>

\* the six batches as the claim lists them
SixBatches ==
    << {LabelProgram},
       {LabelFunction},
       {LabelBlock},
       {LabelVarGrade, LabelVarScore, LabelIf, LabelReturn},
       {LabelCondition, LabelThen, LabelElse},
       {LabelReturn} >>

\* the batches the seven self.play calls make
SevenBatches ==
    << {LabelProgram},
       {LabelFunction},
       {LabelBlock},
       {LabelVarGrade, LabelVarScore},
       {LabelIf},
       {LabelCondition, LabelThen, LabelElse},
       {LabelReturn} >>

\* after k plays of the reveal the nodes on screen are those of the first k
\* batches, and there are no more plays than batches
RevealFollows(batches) ==
    (scene = "ASTGeneration" /\ pc = "show_ast_building:play") =>
        /\ iters <= Len(batches)
        /\ RevealedNodes = UnionUpTo(batches, IF iters <= Len(batches)
                                              THEN iters ELSE Len(batches))

\* C11 as stated: the tree stage reveals its nodes in six batched plays:
\* Program; FunctionDeclaration; BlockStatement; the four children of
\* BlockStatement together; the three children under IfStatement together;
\* ReturnStatement last.
C11_SixBatchReveal == RevealFollows(SixBatches)

\* C11 amended: the tree stage reveals its nodes in seven batched plays:
\* Program; FunctionDeclaration; BlockStatement; the two VariableDeclaration
\* nodes together; IfStatement alone; the three children of IfStatement
\* together; ReturnStatement last.  When the stage returns all ten nodes are
\* on screen.
C11_SevenBatchReveal ==
    /\ RevealFollows(SevenBatches)
    /\ AfterStage("ASTGeneration", "show_ast_building") =>
           RevealedNodes = UnionUpTo(SevenBatches, Len(SevenBatches))

\* The fifth play has run: IfStatement is on screen without its children and
\* without ReturnStatement
C11_Witness ==
    /\ scene = "ASTGeneration"
    /\ pc = "show_ast_building:play"
    /\ iters = 5
    /\ LabelIf \in RevealedNodes
    /\ LabelCondition \notin RevealedNodes
    /\ LabelReturn \notin RevealedNodes

----------------------------------------------------------------------------
(* The lines of the token grid                                              *)

\* the first k lines, one after the other
FirstLines(groups, k) == Flatten(SubSeq(groups, 1, k))

\* C16: for a token list of any length n >= 0 the loop splits the tokens, in
\* order, into lines: every line but the last has exactly 6 tokens, the last
\* has 1 to 6, no line is empty (also when n is a multiple of 6), every token
\* is in exactly one line and the lines one after the other give the token
\* list; the lines are written to the screen in that order.  33 tokens give
\* 6 lines, five of 6 tokens and one of 3.
C16_LineBreaking ==
    LET n == Len(tokens)
        L == Len(token_groups)
        flat == Flatten(token_groups)
        returned == AfterStage("ASTGeneration", "show_tokenization")
    IN  /\ pc = "show_tokenization:loop" =>
               /\ \A k \in 1..L : Len(token_groups[k]) = 6
               /\ Len(current_line) < 6
               /\ Len(flat) + Len(current_line) = iters
        /\ (pc \in {"show_tokenization:normalise", "show_tokenization:play"}
               \/ returned) =>
               /\ \A k \in 1..(L - 1) : Len(token_groups[k]) = 6
               /\ L > 0 => Len(token_groups[L]) \in 1..6
               /\ \A k \in 1..L : Len(token_groups[k]) > 0
               /\ L = (n + 5) \div 6
               /\ n = 0 <=> L = 0
               /\ Len(flat) = n
               /\ NoDuplicates(flat)
               /\ \A k \in 1..n :
                      flat[k].text = tokens[k][1] /\ flat[k].type = tokens[k][2]
               /\ n = 33 =>
                      /\ L = 6
                      /\ \A k \in 1..5 : Len(token_groups[k]) = 6
                      /\ Len(token_groups[6]) = 3
        /\ pc = "show_tokenization:play" =>
               /\ iters <= L
               /\ OnScreen("token") = Members(FirstLines(token_groups, iters))
        /\ returned =>
               /\ self_token_groups = token_groups
               /\ OnScreen("token") = Members(flat)

\* Twelve tokens have been laid out and written: two full lines, no third
C16_Witness ==
    /\ AfterStage("ASTGeneration", "show_tokenization")
    /\ Len(tokens) = 12
    /\ Len(self_token_groups) = 2
    /\ Len(self_token_groups[2]) = 6
    /\ Cardinality(OnScreen("token")) = 12

----------------------------------------------------------------------------
(* The merge of BlockMerging                                                *)

\* the blocks on screen with one of the given titles
BlocksOnScreen(ids) == {b \in OnScreen("block") : b.id \in ids}

\* the connectors on screen that start or end at one of the given blocks
ArrowsOnScreenAt(ids) ==
    {a \in OnScreen("arrow") : a.src \in ids \/ a.dst \in ids}

MergedIds == {"block_1", "block_2", "block_3"}

\* C12: BlockMerging enters its four stages once each, in the order
\* show_initial_blocks, identify_mergeable_blocks, perform_merging,
\* show_final_merged_cfg.  In perform_merging block_1..block_3 and their four
\* connectors leave the screen first, then merged_block appears, then the
\* two connectors entry_block -> merged_block and merged_block -> block_4.
\* A connector of merged_block is never on screen without merged_block, and
\* merged_block is never on screen with block_1, block_2 or block_3.
C12_StagesAndMergeOrder ==
    scene = "BlockMerging" =>
        LET old       == BlocksOnScreen(MergedIds)
            oldArrows == ArrowsOnScreenAt(MergedIds)
            mergedOn  == BlocksOnScreen({"merged_block"}) # {}
            newOn     == ArrowsOnScreenAt({"merged_block"})
        IN  /\ Len(stages) <= Len(BM_construct)
            /\ stages = SubSeq(BM_construct, 1, Len(stages))
            /\ NoDuplicates(stages)
            /\ BM_construct[1] = "show_initial_blocks"
            /\ BM_construct[2] = "identify_mergeable_blocks"
            /\ BM_construct[3] = "perform_merging"
            /\ BM_construct[4] = "show_final_merged_cfg"
            /\ pc = "done" => Len(stages) = 4
            /\ newOn # {} => mergedOn
            /\ mergedOn => old = {} /\ oldArrows = {}
            /\ pc = "perform_merging:fade_old" =>
                   /\ Cardinality(old) = 3
                   /\ Cardinality(oldArrows) = 4
                   /\ ~mergedOn
            /\ pc = "perform_merging:play_merged" =>
                   /\ old = {}
                   /\ oldArrows = {}
                   /\ ~mergedOn
                   /\ newOn = {}
            /\ pc \in {"perform_merging:new_arrows", "perform_merging:play_new_arrows"} =>
                   /\ mergedOn
                   /\ newOn = {}
            /\ pc = "perform_merging:update_blocks" =>
                   /\ mergedOn
                   /\ Cardinality(newOn) = 2
                   /\ \E a \in newOn : a.src = "entry_block" /\ a.dst = "merged_block"
                   /\ \E a \in newOn : a.src = "merged_block" /\ a.dst = "block_4"

\* The two new connectors have just been played next to merged_block
C12_Witness ==
    /\ scene = "BlockMerging"
    /\ pc = "perform_merging:update_blocks"
    /\ merged_block \in screen
    /\ Cardinality(ArrowsOnScreenAt({"merged_block"})) = 2
    /\ BlocksOnScreen(MergedIds) = {}

\* The anchors and label shift of connector a, where cond, then and else are
\* the titles of the condition block and of its two branch blocks
AnchorsAsClaimed(a, cond, then, else) ==
    /\ a.end = "top"
    /\ a.start = IF a.src = cond /\ a.dst = then THEN "left"
                 ELSE IF a.src = cond /\ a.dst = else THEN "right"
                 ELSE "bottom"
    /\ a.label = "true" => a.shift = "LEFT"
    /\ a.label = "false" => a.shift = "RIGHT"
    /\ a.label = None => a.shift = None
    /\ a.start \in {"left", "right"} <=> a.label # None

\* C13: every connector built in FinalCFG and in BlockMerging (the two built
\* with index -1 after the merge included) ends at the top edge of its
\* destination box; it starts at the left edge of the condition box when it
\* goes to the then block, at the right edge when it goes to the else block,
\* and at the bottom edge of its source box otherwise; a "true" label is
\* shifted left and a "false" label right; so a connector starts at a side
\* edge exactly when it has a label.
C13_ConnectorAnchors ==
    /\ scene = "FinalCFG" =>
           \A a \in Members(arrows) \cup OnScreen("arrow") :
               AnchorsAsClaimed(a, "block_1", "block_2", "block_3")
    /\ scene = "BlockMerging" =>
           \A a \in Members(arrows) \cup Members(new_arrows)
                    \cup Members(self_arrows) \cup OnScreen("arrow") :
               AnchorsAsClaimed(a, "block_4", "block_5", "block_6")

\* The two connectors of merged_block exist next to the labelled side
\* connectors of the condition
C13_Witness ==
    /\ scene = "BlockMerging"
    /\ Len(new_arrows) = 2
    /\ new_arrows[1].start = "bottom" /\ new_arrows[1].dst = "merged_block"
    /\ new_arrows[2].start = "bottom" /\ new_arrows[2].src = "merged_block"
    /\ \E a \in Members(arrows) : a.start = "left" /\ a.label = "true"
    /\ \E a \in Members(arrows) : a.start = "right" /\ a.label = "false"

\* the connectors of a list that end (start) at the block titled b
Incoming(list, b) == {k \in 1..Len(list) : list[k].dst = b}
Outgoing(list, b) == {k \in 1..Len(list) : list[k].src = b}

\* C14: in the initial connector list the highlighted blocks are block_1,
\* block_2, block_3, each with exactly one incoming and one outgoing
\* connector, and they form the chain block_1 -> block_2 -> block_3 in which
\* each link A -> B is the only connector leaving A and the only one entering
\* B.
C14_MergeableChain ==
    (scene = "BlockMerging" /\ Len(self_overlay.highlight_boxes) > 0) =>
        LET hl == self_overlay.highlight_boxes
        IN  /\ Len(arrows) = 9
            /\ [k \in 1..Len(hl) |-> hl[k].around] = <<"block_1", "block_2", "block_3">>
            /\ \A k \in 1..Len(hl) :
                   /\ Cardinality(Incoming(arrows, hl[k].around)) = 1
                   /\ Cardinality(Outgoing(arrows, hl[k].around)) = 1
            /\ \A k \in 1..(Len(hl) - 1) :
                   \E j \in 1..Len(arrows) :
                       /\ arrows[j].src = hl[k].around
                       /\ arrows[j].dst = hl[k + 1].around
                       /\ Outgoing(arrows, hl[k].around) = {j}
                       /\ Incoming(arrows, hl[k + 1].around) = {j}

\* The three highlights are on screen around the chain
C14_Witness ==
    /\ AfterStage("BlockMerging", "identify_mergeable_blocks")
    /\ Len(self_overlay.highlight_boxes) = 3
    /\ Members(self_overlay.highlight_boxes) \subseteq screen
    /\ Cardinality(Incoming(arrows, "block_2")) = 1

\* perform_merging has returned (the scene may have gone on)
MergeReturned ==
    /\ scene = "BlockMerging"
    /\ \/ Len(stages) = 3 /\ pc \in {"wait", "construct"}
       \/ Len(stages) = 4

\* C15: from the return of perform_merging to the end of the scene the
\* members of self.blocks and self.arrows are exactly the blocks and
\* connectors on screen, and every member of self.arrows joins two members of
\* self.blocks; every FadeOut of perform_merging and every animation of
\* show_final_merged_cfg targets objects that are on screen.
C15_ListsMatchScreen ==
    /\ MergeReturned =>
           /\ NoDuplicates(self_blocks)
           /\ NoDuplicates(self_arrows)
           /\ OnScreen("block") = Members(self_blocks)
           /\ OnScreen("arrow") = Members(self_arrows)
           /\ \A a \in Members(self_arrows) :
                  /\ \E b \in Members(self_blocks) : b.id = a.src
                  /\ \E b \in Members(self_blocks) : b.id = a.dst
    /\ (scene = "BlockMerging" /\ pc = "perform_merging:fade_overlay") =>
           Members(self_overlay.rule_text)
               \cup Members(self_overlay.highlight_boxes)
               \cup Members(self_overlay.annotations) \subseteq screen
    /\ (scene = "BlockMerging" /\ pc = "perform_merging:fade_old") =>
           Members(BM_blocks_to_remove(self_blocks))
               \cup Members(BM_arrows_to_remove(self_arrows)) \subseteq screen
    /\ (scene = "BlockMerging"
           /\ pc \in {"show_final_merged_cfg", "show_final_merged_cfg:play_opacity"}) =>
           /\ TitleMob \in screen
           /\ Members(self_blocks) \cup Members(self_arrows) \subseteq screen

\* The scene has ended with the seven blocks and seven connectors and the note
C15_Witness ==
    /\ scene = "BlockMerging"
    /\ pc = "done"
    /\ BM_note \in screen
    /\ Len(self_blocks) = 7
    /\ Len(self_arrows) = 7
    /\ merged_block \in screen

\* the directed graph of a connector list
Edges(list) == {<<list[k].src, list[k].dst>> : k \in 1..Len(list)}
Titles(list) == {list[k].id : k \in 1..Len(list)}

\* the successors of block a
Successors(E, a) == {e[2] : e \in {d \in E : d[1] = a}}

\* the pairs <<a, b>> of N joined by a path of one or more edges of E: b is in
\* every set of blocks that holds the successors of a and is closed under
\* successors
Paths(E, N) ==
    {p \in N \X N :
        \A S \in SUBSET N :
            (Successors(E, p[1]) \subseteq S /\ \A e \in E : e[1] \in S => e[2] \in S)
                => p[2] \in S}

\* every block is reached from entry_block and reaches exit_block, which has
\* no outgoing connector, and no path returns to its start
WellFormedFlow(E, N) ==
    LET P == Paths(E, N)
    IN  /\ E \subseteq N \X N
        /\ {"entry_block", "exit_block"} \subseteq N
        /\ Successors(E, "exit_block") = {}
        /\ ({"entry_block"} \X (N \ {"entry_block"}))
               \cup ((N \ {"exit_block"}) \X {"exit_block"}) \subseteq P
        /\ {n \in N : <<n, n>> \in P} = {}

\* C17: after the merge there is a connector path between two of the blocks
\* entry_block, block_4 (condition), block_5 (then), block_6 (else), block_7
\* (join), exit_block exactly when there was one in the initial graph; in the
\* initial graph and in the merged graph every block is reachable from
\* entry_block, exit_block is reachable from every block and has no outgoing
\* connector, and there is no cycle.
C17_FlowPreserved ==
    MergeReturned =>
        LET E0 == Edges(arrows)
            N0 == Titles(blocks)
            E1 == Edges(self_arrows)
            N1 == Titles(self_blocks)
            surviving == {"entry_block", "block_4", "block_5", "block_6",
                          "block_7", "exit_block"}
            P0 == Paths(E0, N0)
            P1 == Paths(E1, N1)
        IN  /\ surviving = N0 \cap N1
            /\ P0 \cap (surviving \X surviving) = P1 \cap (surviving \X surviving)
            /\ WellFormedFlow(E0, N0)
            /\ WellFormedFlow(E1, N1)

\* The merge has returned: the condition is reached from entry_block through
\* merged_block only
C17_Witness ==
    /\ AfterStage("BlockMerging", "perform_merging")
    /\ <<"entry_block", "merged_block">> \in Edges(self_arrows)
    /\ <<"merged_block", "block_4">> \in Edges(self_arrows)
    /\ <<"entry_block", "block_1">> \in Edges(arrows)
    /\ <<"entry_block", "block_1">> \notin Edges(self_arrows)

----------------------------------------------------------------------------
(* Parent closure of the reveal of the tree                                 *)

\* the arrows show_ast_building has built
BuiltArrows == {env[v] : v \in {w \in DOMAIN env : env[w].kind = "ast_arrow"}}

\* the targets of the next play of the reveal
PlayTargets ==
    IF iters < Len(AST_plays) /\ Members(AST_plays[iters + 1]) \subseteq DOMAIN env
    THEN {env[v] : v \in Members(AST_plays[iters + 1])}
    ELSE {}

\* one play of the reveal
RevealStep ==
    /\ scene = "ASTGeneration"
    /\ pc = "show_ast_building:play"
    /\ screen' # screen

\* the part of the tree on screen is closed under parents
ParentClosed ==
    /\ \A a \in OnScreen("ast_arrow") : a.src \in screen /\ a.dst \in screen
    /\ \A n \in OnScreen("node") :
           \A a \in BuiltArrows : a.dst = n => a \in screen

\* C18: during the tree stage the revealed part of the tree is closed under
\* parents at every moment; a play reveals a node only when its parent is
\* already on screen, reveals each connector together with its child node and
\* not before its parent node, and targets nothing that is already on screen;
\* when the stage returns all 10 nodes and 9 connectors are on screen.
C18_ParentBeforeChild ==
    /\ [](scene = "ASTGeneration" => ParentClosed)
    /\ [][RevealStep =>
            /\ PlayTargets \cap screen = {}
            /\ Cardinality(PlayTargets) = Len(AST_plays[iters + 1])
            /\ screen' = screen \cup PlayTargets
            /\ \A n \in {m \in PlayTargets : m.kind = "node"} :
                   \A a \in BuiltArrows : a.dst = n => a.src \in screen
            /\ \A a \in {m \in PlayTargets : m.kind = "ast_arrow"} :
                   /\ a.dst \in PlayTargets
                   /\ a.src \in screen]_vars
    /\ [](AfterStage("ASTGeneration", "show_ast_building") =>
            /\ Cardinality(OnScreen("node")) = 10
            /\ Cardinality(OnScreen("ast_arrow")) = 9
            /\ OnScreen("node") = Members(self_ast_nodes)
            /\ OnScreen("ast_arrow") = Members(self_ast_arrows))

\* The play of the three children of IfStatement has run: they are on screen
\* with their connectors and their parent, ReturnStatement is not yet
C18_Witness ==
    /\ scene = "ASTGeneration"
    /\ pc = "show_ast_building:play"
    /\ iters = 6
    /\ {LabelIf, LabelCondition, LabelThen, LabelElse} \subseteq RevealedNodes
    /\ Cardinality(OnScreen("ast_arrow")) = 8
    /\ LabelReturn \notin RevealedNodes

=============================================================================
